---------------------------- MODULE ClientProofs ----------------------------
(***************************************************************************)
(* Proofs about the resilient client, for any set of requests, any queue   *)
(* and any number of connections and fences: a request is answered at most *)
(* once, its frame is written to at most one connection (of initialize a   *)
(* cached copy is replayed besides), a refused frame was not written, and  *)
(* nothing accepted or cached before a maintenance fence is written after  *)
(* it.                                                                     *)
(***************************************************************************)
EXTENDS Client, FiniteSetTheorems, TLAPS

Kinds == {"result", "lost", "notsent", "held", "full"}
Unwritten == {"notsent", "held", "full"}
Accepting == [at : {"recheck", "wait", "admit"}, frame : Frame, seq : 0..MaxFences]
Connection == [n : 1..MaxConn, state : {"open", "broken", "closed"}, wire : SUBSET Req]
Parked == {"suspend", "suspended", "negotiate", "reconnect"} \cup Reconnecting

\* The types, with the queues as sequences and the ghosts as functions.
ClientTypes ==
  /\ msgFromCC \in Seq(Frame) /\ Len(msgFromCC) <= QueueCap /\ msgFromIPC \in Seq(Req)
  /\ inflight \subseteq Req
  /\ held \in BOOLEAN /\ sequence \in 0..MaxFences /\ pending \in BOOLEAN
  /\ wakeup \in BOOLEAN /\ cached \in BOOLEAN
  /\ initialized \in BOOLEAN /\ quiet \in BOOLEAN /\ suspending \in BOOLEAN
  /\ offer \in {"none", "ready", "committed"}
  /\ ing \in [Ingress -> {Idle} \cup Accepting]
  /\ conn \in Connection
  /\ connSequence \in 0..MaxFences
  /\ reader \in Req \cup {"run", "eof"} /\ writer \in Frame \cup {"run", "done"}
  /\ main \in {"proxy", "drain", "join", "gate", "forward"} \cup Parked \cup Ended
  /\ wake \in Req \cup {NoFrame} /\ then \in {"lost", "demand"}
  /\ budget \in 0..MaxRefreshAttempts
  /\ attempt \in {"none", "running", "fence", "ok", "terminal", "fail", "refused"}
  /\ degraded \in BOOLEAN /\ host \in {"open", "eof", "ignored", "dead"}
  /\ answers \in [Req -> Seq(Kinds)]
  /\ sent \in [Req \cup {Replay} -> SUBSET (1..MaxConn)]
  /\ admittedAt \in [Req -> (0..MaxFences) \cup {NoFrame}]

\* Which processes run where the proxy loop is.
Processes ==
  /\ main \in {"join", "gate"} \cup Parked => conn.n < MaxConn
  /\ main \in {"join"} \cup Parked => conn.state = "closed"
  /\ main \in {"forward"} \cup (Parked \ {"suspend"}) => writer = "done"
  /\ main = "forward" => conn.wire = {}
  /\ attempt # "none" => main \in {"attempt"} \cup Ended
  /\ suspending => main \in Parked \cup Ended
  /\ conn.state # "closed" => conn.wire \subseteq inflight

\* The queues hold a frame once.
In(q, x) == \E i \in 1..Len(q) : q[i] = x
Once(q) == \A i, j \in 1..Len(q) : q[i] = q[j] => i = j
Queues == Once(msgFromCC) /\ Once(msgFromIPC)

\* The dormancy handshake has one Commit under way at a time, and what is left of it
\* is gone before the client is idle again.
OnIngress(f) == ing["stdin"] # Idle /\ ing["stdin"].frame = f
InQueue(f) == In(msgFromCC, f)
Handshake ==
  /\ offer # "none" => main \in {"negotiate"} \cup Ended
  /\ OnIngress(Commit) \/ InQueue(Commit) \/ writer = Commit =>
       \/ main \in Ended
       \/ main = "negotiate" /\ offer = "committed"
       \/ ~quiet /\ main \notin {"suspend", "suspended", "negotiate"}
  /\ OnIngress(Commit) => ~InQueue(Commit)
  /\ quiet => msgFromCC = <<>>
  /\ ing["inject"] # Idle => ing["inject"].frame # Commit

\* A request that is being read was never accepted.
Arriving ==
  \A p \in Ingress : ing[p] # Idle /\ ing[p].frame \in Req =>
    /\ answers[ing[p].frame] = <<>> /\ admittedAt[ing[p].frame] = NoFrame
    /\ (p = "inject") = (ing[p].frame \in Injected)

\* An accepted request that was not written is in the queue, in the writer or with
\* the proxy loop: once, in one of them, and unanswered.
WithProxy(r) == wake = r /\ main \notin Ended
Unsent(r) == InQueue(r) \/ writer = r \/ WithProxy(r)
Accepted ==
  /\ \A r \in Req : Unsent(r) => answers[r] = <<>> /\ sent[r] = {} /\ admittedAt[r] # NoFrame
  /\ \A r \in Req : /\ writer = r => ~InQueue(r) /\ ~WithProxy(r)
                    /\ WithProxy(r) => ~InQueue(r)

\* A written request is in flight, in the reader or on its way to the host: once, in
\* one of them, and unanswered.
InOutput(r) == In(msgFromIPC, r)
Written ==
  /\ \A r \in Req : r \in inflight \/ reader = r \/ InOutput(r) => answers[r] = <<>> /\ sent[r] # {}
  /\ \A r \in Req : /\ reader = r => r \notin inflight /\ ~InOutput(r)
                    /\ InOutput(r) => r \notin inflight

\* What is behind a request that was answered, or that was never accepted.
History ==
  \A r \in Req :
    /\ answers[r] = <<>> \/ \E k \in Kinds : answers[r] = <<k>>
    /\ \A k \in Unwritten : answers[r] = <<k>> => sent[r] = {}
    /\ sent[r] = {} \/ \E n \in 1..MaxConn : sent[r] = {n}
    /\ admittedAt[r] = NoFrame => sent[r] = {}

\* What is accepted was accepted under the current fence, or a fence is in force that
\* will refuse it.
Fenced ==
  /\ held => msgFromCC = <<>>
  /\ \A r \in Req :
       /\ InQueue(r) => admittedAt[r] = sequence
       /\ writer = r => held \/ admittedAt[r] = sequence
       /\ wake = r /\ main \notin Reconnecting \cup Ended =>
            held \/ admittedAt[r] = sequence
       /\ wake = r /\ then = "demand" /\ main \in Reconnecting =>
            \/ ~held /\ admittedAt[r] = sequence
            \/ main = "attempt" /\ attempt = "fence"
  /\ main = "forward" => then = "demand"

ClientInv ==
  /\ ClientTypes
  /\ Processes
  /\ Queues
  /\ Handshake
  /\ Arriving
  /\ Accepted
  /\ Written
  /\ History
  /\ Fenced
-----------------------------------------------------------------------------
(* What the queue operators do.                                            *)

\* An empty queue holds nothing.
LEMMA EmptyQueue == Once(<<>>) /\ \A x : ~In(<<>>, x)
  BY DEF Once, In

\* A queue that a frame is appended to.
LEMMA AppendQueue ==
  ASSUME NEW S, NEW q \in Seq(S), NEW x \in S
  PROVE  /\ Append(q, x) \in Seq(S) /\ Len(Append(q, x)) = Len(q) + 1
         /\ \A y : In(Append(q, x), y) <=> In(q, y) \/ y = x
         /\ Once(q) /\ ~In(q, x) => Once(Append(q, x))
  <1>1. /\ Append(q, x) \in Seq(S) /\ Len(Append(q, x)) = Len(q) + 1
        /\ \A i \in 1..Len(q) : Append(q, x)[i] = q[i]
        /\ Append(q, x)[Len(q) + 1] = x /\ Len(q) \in Nat
    OBVIOUS
  <1>2. \A i \in 1..(Len(q) + 1) : i \in 1..Len(q) \/ i = Len(q) + 1
    BY <1>1
  <1> QED
    BY <1>1, <1>2 DEF In, Once

\* A queue whose first frame is taken.
LEMMA TailQueue ==
  ASSUME NEW S, NEW q \in Seq(S), q # <<>>, Once(q)
  PROVE  /\ Head(q) \in S /\ In(q, Head(q))
         /\ Tail(q) \in Seq(S) /\ Len(Tail(q)) <= Len(q) /\ Once(Tail(q))
         /\ \A y : In(Tail(q), y) <=> In(q, y) /\ y # Head(q)
  <1>1. /\ Tail(q) \in Seq(S) /\ Len(q) \in Nat /\ Len(q) > 0 /\ Len(Tail(q)) = Len(q) - 1
        /\ Head(q) = q[1] /\ \A i \in 1..Len(q) : q[i] \in S
        /\ \A i \in 1..Len(Tail(q)) : Tail(q)[i] = q[i + 1] /\ i + 1 \in 1..Len(q)
    OBVIOUS
  <1>2. \A i \in 1..Len(q) : i = 1 \/ (i - 1 \in 1..Len(Tail(q)) /\ Tail(q)[i - 1] = q[i])
    BY <1>1
  <1>3. 1 \in 1..Len(q)
    BY <1>1
  <1>4. Once(Tail(q))
    BY <1>1 DEF Once
  <1>5. ASSUME NEW y, In(Tail(q), y) PROVE In(q, y) /\ y # Head(q)
    <2>1. PICK i \in 1..Len(Tail(q)) : Tail(q)[i] = y
      BY <1>5 DEF In
    <2>2. i + 1 \in 1..Len(q) /\ q[i + 1] = y /\ i + 1 # 1
      BY <1>1, <2>1
    <2> QED
      BY <1>1, <1>3, <2>2 DEF In, Once
  <1>6. ASSUME NEW y, In(q, y), y # Head(q) PROVE In(Tail(q), y)
    BY <1>1, <1>2, <1>6 DEF In
  <1>7. Head(q) \in S /\ In(q, Head(q)) /\ Len(Tail(q)) <= Len(q)
    BY <1>1, <1>3 DEF In
  <1> QED
    BY <1>1, <1>4, <1>5, <1>6, <1>7

\* The set of a queue's frames.
LEMMA QueueSet ==
  ASSUME NEW S, NEW q \in Seq(S)
  PROVE  /\ ToSet(q) \subseteq S /\ \A y : y \in ToSet(q) <=> In(q, y)
         /\ \A n \in Nat : Len(q) <= n => q \in SeqOf(S, n)
  <1>1. Len(q) \in Nat /\ DOMAIN q = 1..Len(q) /\ q \in [1..Len(q) -> S]
    OBVIOUS
  <1>2. ToSet(q) \subseteq S /\ \A y : y \in ToSet(q) <=> In(q, y)
    BY <1>1 DEF ToSet, In
  <1>3. ASSUME NEW n \in Nat, Len(q) <= n PROVE q \in SeqOf(S, n)
    <2>1. Len(q) \in 0..n
      BY <1>1, <1>3
    <2> QED
      BY <1>1, <2>1 DEF SeqOf
  <1> QED
    BY <1>2, <1>3

\* What is being read is not idle.
LEMMA NotIdle == \A x \in Accepting : x # Idle
  BY DEF Accepting, Idle

\* An answer of one line is that line.
LEMMA OneLine == \A k, l : (<<k>> = <<l>> => k = l) /\ <<k>> # <<>>
  OBVIOUS

\* The requests that are queued.
LEMMA QueuedRequests ==
  ASSUME ClientTypes
  PROVE  \A r : r \in Queued <=> r \in Req /\ InQueue(r)
  BY QueueSet DEF ClientTypes, Queued, Requests, InQueue

\* Nobody is answered who is not asked for, and who was not answered is answered
\* once, or not at all when the host is gone.
LEMMA AnswerOnce ==
  ASSUME ClientTypes, NEW rs, NEW kind \in Kinds, Answer(rs, kind),
         \A r \in rs \cap Req : answers[r] = <<>>
  PROVE  /\ answers' \in [Req -> Seq(Kinds)]
         /\ \A r \in Req : \/ answers'[r] = answers[r]
                           \/ r \in rs /\ answers[r] = <<>> /\ answers'[r] = <<kind>>
  <1>1. answers \in [Req -> Seq(Kinds)]
    BY DEF ClientTypes
  <1>2. \A r \in Req : Append(answers[r], kind) \in Seq(Kinds)
    BY <1>1
  <1>3. Append(<<>>, kind) = <<kind>>
    OBVIOUS
  <1> QED
    BY <1>1, <1>2, <1>3 DEF Answer

\* A fence is entered: the queue is drained with maintenance errors.
LEMMA FenceEntered ==
  ASSUME ClientInv, enterMaintenance
  PROVE  /\ msgFromCC' = <<>> /\ held' = TRUE /\ cached' = FALSE
         /\ msgFromCC' \in Seq(Frame) /\ Len(msgFromCC') <= QueueCap
         /\ Once(msgFromCC') /\ \A x : ~In(msgFromCC', x)
         /\ sequence' \in 0..MaxFences
         /\ answers' \in [Req -> Seq(Kinds)]
         /\ \A r \in Req : \/ answers'[r] = answers[r]
                           \/ InQueue(r) /\ answers[r] = <<>> /\ answers'[r] = <<"held">>
  <1>1. ClientTypes /\ \A r \in Req : InQueue(r) => answers[r] = <<>>
    BY DEF ClientInv, Accepted, Unsent
  <1>2. /\ answers' \in [Req -> Seq(Kinds)]
        /\ \A r \in Req : \/ answers'[r] = answers[r]
                          \/ r \in Queued /\ answers[r] = <<>> /\ answers'[r] = <<"held">>
    BY <1>1, QueuedRequests, AnswerOnce DEF enterMaintenance, Kinds
  <1>3. sequence' \in 0..MaxFences
    BY <1>1, ClientAssumption DEF ClientTypes, enterMaintenance
  <1>4. msgFromCC' = <<>> /\ <<>> \in Seq(Frame) /\ Len(<<>>) = 0 /\ 0 <= QueueCap
    BY ClientAssumption DEF enterMaintenance
  <1> QED
    BY <1>1, <1>2, <1>3, <1>4, QueuedRequests, EmptyQueue DEF enterMaintenance

\* Answers to accepted requests do not concern what is being read.
LEMMA ArrivingKept ==
  ASSUME Arriving, UNCHANGED <<ing, admittedAt>>,
         \A r \in Req : admittedAt[r] = NoFrame => answers'[r] = answers[r]
  PROVE  Arriving'
  BY DEF Arriving

\* One line for an unanswered request, and no claim that it was not sent if it was.
LEMMA HistoryKept ==
  ASSUME History, UNCHANGED admittedAt, \A r \in Req : sent'[r] = sent[r],
         \A r \in Req : \/ answers'[r] = answers[r]
                        \/ \E k \in Kinds : answers'[r] = <<k>> /\ (k \in Unwritten => sent[r] = {})
  PROVE  History'
  BY OneLine DEF History

\* The pending admission is settled: who waited for it goes on with its frame.
LEMMA AdmissionSettled ==
  ASSUME ClientTypes, SettlePending
  PROVE  /\ pending' = FALSE /\ wakeup' = FALSE
         /\ ing' \in [Ingress -> {Idle} \cup Accepting]
         /\ \A q \in Ingress : /\ ing'[q] = Idle <=> ing[q] = Idle
                               /\ ing[q] # Idle => ing'[q].frame = ing[q].frame
  <1>1. \A q \in Ingress : ing[q] = Idle \/ ing[q] \in Accepting
    BY DEF ClientTypes
  <1>2. ASSUME NEW x \in Accepting
        PROVE  [x EXCEPT !.at = "admit"] \in Accepting /\ [x EXCEPT !.at = "admit"].frame = x.frame
    BY DEF Accepting
  <1>3. ing' = [p \in Ingress |-> IF ing[p] # Idle /\ ing[p].at = "wait" /\ pending
                                  THEN [ing[p] EXCEPT !.at = "admit"] ELSE ing[p]]
    BY DEF SettlePending
  <1> QED
    BY <1>1, <1>2, <1>3, NotIdle DEF SettlePending

\* The demand or the unsent frame that the proxy loop has is answered at most once.
LEMMA WakeAnswered ==
  ASSUME ClientInv, main \notin Ended, NEW rs, rs \subseteq {wake}, NEW kind \in Kinds, Answer(rs, kind)
  PROVE  /\ answers' \in [Req -> Seq(Kinds)]
         /\ \A r \in Req : \/ answers'[r] = answers[r]
                           \/ r \in rs /\ r = wake /\ answers[r] = <<>> /\ answers'[r] = <<kind>>
  <1>1. \A r \in rs \cap Req : answers[r] = <<>>
    BY DEF ClientInv, Accepted, Unsent, WithProxy
  <1> QED
    BY <1>1, AnswerOnce DEF ClientInv

\* The connection is closed.
LEMMA ConnectionClosed ==
  ASSUME ClientTypes, Close
  PROVE  /\ conn' \in Connection /\ conn'.n = conn.n /\ conn'.wire = conn.wire
         /\ conn'.state = "closed"
  BY DEF ClientTypes, Connection, Close

\* A frame arrives.
LEMMA Reading ==
  ASSUME ClientInv, NEW p \in Ingress, NEW f \in Frame, StartIngress(p, f)
  PROVE  ClientInv'
  <1> USE ClientAssumption DEF ClientInv, StartIngress, NewFrame, queueVars, fenceVars, connVars,
                               mainVars, ghostVars, Frame, Commit
  <1>1. ClientTypes'
    <2>1. ing' \in [Ingress -> {Idle} \cup Accepting]
      BY DEF ClientTypes, Accepting, Idle, Ingress
    <2> QED
      BY <2>1 DEF ClientTypes, Ended, Reconnecting, Parked
  <1>2. Processes' /\ Queues' /\ Accepted' /\ Written' /\ History' /\ Fenced'
    BY DEF Processes, Queues, Accepted, Written, History, Fenced, Unsent, InQueue, WithProxy,
           InOutput
  <1>3. Handshake'
    BY DEF ClientTypes, Handshake, OnIngress, InQueue, Ended, Reconnecting, Parked, Idle, Ingress,
           Accepting
  <1>4. Arriving'
    BY DEF ClientTypes, Arriving, Ended, Reconnecting, Parked, Idle, Ingress, Accepting
  <1> QED
    BY <1>1, <1>2, <1>3, <1>4

\* A frame that met a fence asks the daemon again.
LEMMA Rechecking == ASSUME ClientInv, NEW p \in Ingress, recheckMaintenance(p) PROVE ClientInv'
  <1> USE ClientAssumption DEF ClientInv, recheckMaintenance, enterMaintenance, Queued, Requests,
                               fenceVars, idleVars, connVars, mainVars, Frame, Commit
  <1>1. held => Queued = {} /\ msgFromCC = <<>> /\ \A x : ~In(msgFromCC, x)
    BY QueuedRequests, EmptyQueue DEF Fenced, InQueue
  <1>2. /\ UNCHANGED <<msgFromCC, msgFromIPC, inflight, held, initialized, quiet, suspending, offer, conn>>
        /\ UNCHANGED <<connSequence, reader, writer, main, wake, then, budget, attempt, degraded, host>>
        /\ UNCHANGED <<answers, sent, admittedAt>>
        /\ sequence' \in 0..MaxFences /\ (sequence' = sequence \/ held)
        /\ pending' \in BOOLEAN /\ wakeup' \in BOOLEAN /\ cached' \in BOOLEAN
    <2>1. ASSUME held, enterMaintenance PROVE UNCHANGED <<msgFromCC, answers, held>>
      BY <1>1, <2>1 DEF Answer, ClientTypes
    <2>2. enterMaintenance => sequence' \in 0..MaxFences
      BY FenceEntered
    <2> HIDE DEF enterMaintenance
    <2>3. sequence' \in 0..MaxFences /\ (sequence' = sequence \/ held)
      BY <2>2 DEF ClientTypes
    <2> QED
      BY <2>1, <2>3 DEF ClientTypes, enterMaintenance
  <1>3. /\ ing' \in [Ingress -> {Idle} \cup Accepting]
        /\ \A q \in Ingress : /\ ing'[q] = Idle <=> ing[q] = Idle
                              /\ ing[q] # Idle => ing'[q].frame = ing[q].frame
    <2> HIDE DEF enterMaintenance
    <2>1. ing[p] \in Accepting /\ ing \in [Ingress -> {Idle} \cup Accepting] /\ sequence \in 0..MaxFences
      BY DEF ClientTypes
    <2>2. ASSUME NEW a \in {"wait", "admit"}, NEW n \in 0..MaxFences
          PROVE  [ing[p] EXCEPT !.at = a, !.seq = n] \in Accepting
                 /\ [ing[p] EXCEPT !.at = a] \in Accepting
                 /\ [ing[p] EXCEPT !.at = a, !.seq = n].frame = ing[p].frame
                 /\ [ing[p] EXCEPT !.at = a].frame = ing[p].frame
      BY <2>1 DEF Accepting
    <2>3. \E x \in Accepting : x.frame = ing[p].frame /\ ing' = [ing EXCEPT ![p] = x]
      BY <2>1, <2>2
    <2> QED
      BY <2>1, <2>3, NotIdle
  <1> HIDE DEF recheckMaintenance, enterMaintenance, Queued, Requests
  <1>4. ClientTypes'
    BY <1>1, <1>2, <1>3 DEF ClientTypes, Parked, Ended, Reconnecting
  <1>5. Processes'
    BY <1>1, <1>2, <1>3 DEF Processes
  <1>6. Queues'
    BY <1>1, <1>2, <1>3 DEF ClientTypes, Queues, Ended, Reconnecting, Parked, Ingress
  <1>7. Handshake'
    BY <1>1, <1>2, <1>3 DEF ClientTypes, Handshake, OnIngress, InQueue, Ended, Reconnecting,
                            Parked, Ingress
  <1>8. Arriving'
    BY <1>1, <1>2, <1>3 DEF ClientTypes, Arriving, Ended, Reconnecting, Parked, Ingress
  <1>9. Accepted'
    BY <1>1, <1>2, <1>3 DEF ClientTypes, Accepted, Unsent, InQueue, WithProxy, Ended,
                            Reconnecting, Parked, Ingress
  <1>10. Written'
    BY <1>1, <1>2, <1>3 DEF ClientTypes, Written, InOutput, Ended, Reconnecting, Parked, Ingress
  <1>11. History'
    BY <1>1, <1>2, <1>3, OneLine DEF ClientTypes, History, Ended, Reconnecting, Parked, Ingress
  <1>12. Fenced'
    BY <1>1, <1>2, <1>3 DEF ClientTypes, Fenced, InQueue, Ended, Reconnecting, Parked, Ingress
  <1> QED
    BY <1>4, <1>5, <1>6, <1>7, <1>8, <1>9, <1>10, <1>11, <1>12

\* A frame of the host is accepted, or refused across a fence.
LEMMA Queueing == ASSUME ClientInv, enqueueHostFrame PROVE ClientInv'
  <1> USE ClientAssumption DEF ClientInv, enqueueHostFrame, Refused, Requests, Enqueue, connVars,
                               mainVars, Frame, Commit
  <1>1. /\ UNCHANGED <<msgFromIPC, inflight, held, sequence, pending, wakeup, initialized, suspending, offer>>
        /\ UNCHANGED <<conn, connSequence, reader, writer, main, wake, then, budget, attempt, degraded>>
        /\ UNCHANGED <<host, sent>> /\ ing' = [ing EXCEPT !["stdin"] = Idle]
    OBVIOUS
  <1>2. /\ ing["stdin"] \in Accepting /\ ing["stdin"] # Idle /\ ing["stdin"].frame \in Frame
        /\ ing["stdin"].seq \in 0..MaxFences /\ ing["stdin"].seq # NoFrame
    BY DEF ClientTypes, Ingress, Accepting
  <1>3. /\ ing' \in [Ingress -> {Idle} \cup Accepting] /\ ing'["stdin"] = Idle
        /\ \A q \in Ingress : q # "stdin" => ing'[q] = ing[q]
    BY <1>1 DEF ClientTypes, Ingress
  <1>4. \/ /\ UNCHANGED <<msgFromCC, cached, quiet, admittedAt>>
           /\ answers' \in [Req -> Seq(Kinds)]
           /\ \A r \in Req : \/ answers'[r] = answers[r]
                             \/ /\ r = ing["stdin"].frame /\ answers[r] = <<>>
                                /\ \E k \in Unwritten : answers'[r] = <<k>>
        \/ /\ ~held /\ ing["stdin"].seq = sequence /\ msgFromCC' = Append(msgFromCC, ing["stdin"].frame)
           /\ Len(msgFromCC) < QueueCap /\ quiet' = FALSE /\ cached' \in BOOLEAN /\ UNCHANGED answers
           /\ admittedAt' = IF ing["stdin"].frame \in Req
                            THEN [admittedAt EXCEPT ![ing["stdin"].frame] = sequence] ELSE admittedAt
    <2>1. ing["stdin"].frame \in Req => answers[ing["stdin"].frame] = <<>>
      BY <1>2 DEF Arriving, Ingress
    <2>2. CASE Refused("stdin")
      <3>1. Requests({ing["stdin"].frame}) \subseteq {ing["stdin"].frame}
        BY DEF Requests
      <3>2. Answer(Requests({ing["stdin"].frame}), "held")
        BY <2>2
      <3> QED
        BY <2>1, <2>2, <3>1, <3>2, AnswerOnce DEF Kinds, Unwritten
    <2>3. CASE ~Refused("stdin")
      BY <1>2, <2>3 DEF ClientTypes
    <2> QED
      BY <2>2, <2>3
  <1>5. admittedAt' \in [Req -> (0..MaxFences) \cup {NoFrame}] /\ cached' \in BOOLEAN /\ quiet' \in BOOLEAN
    BY <1>2, <1>4 DEF ClientTypes
  <1>6. /\ ing["stdin"].frame \in Req =>
             admittedAt[ing["stdin"].frame] = NoFrame /\ answers[ing["stdin"].frame] = <<>>
        /\ ing["stdin"].frame \in Req => sent[ing["stdin"].frame] = {}
        /\ ~InQueue(ing["stdin"].frame)
    BY <1>2 DEF Arriving, Accepted, Unsent, History, Ingress, Handshake, OnIngress
  <1>7. /\ msgFromCC' \in Seq(Frame) /\ Len(msgFromCC') <= QueueCap /\ Once(msgFromCC')
        /\ \A x : In(msgFromCC', x) =>
             In(msgFromCC, x) \/ (x = ing["stdin"].frame /\ ~held /\ ing["stdin"].seq = sequence
                                  /\ quiet' = FALSE /\ UNCHANGED answers /\ (x \in Req => admittedAt'[x] = sequence))
    <2>1. msgFromCC \in Seq(Frame) /\ Once(msgFromCC) /\ Len(msgFromCC) \in Nat /\ Len(msgFromCC) <= QueueCap
      BY DEF ClientTypes, Queues
    <2>2. CASE UNCHANGED msgFromCC
      BY <2>1, <2>2
    <2>3. CASE ~UNCHANGED msgFromCC
      <3>1. msgFromCC' = Append(msgFromCC, ing["stdin"].frame) /\ Len(msgFromCC) < QueueCap
            /\ quiet' = FALSE /\ UNCHANGED answers /\ ~held /\ ing["stdin"].seq = sequence
            /\ (ing["stdin"].frame \in Req => admittedAt'[ing["stdin"].frame] = sequence)
        BY <1>4, <2>3 DEF ClientTypes
      <3>2. /\ msgFromCC' \in Seq(Frame) /\ Len(msgFromCC') = Len(msgFromCC) + 1
            /\ Once(msgFromCC') /\ \A y : In(msgFromCC', y) <=> In(msgFromCC, y) \/ y = ing["stdin"].frame
        BY <1>2, <1>6, <2>1, <3>1, AppendQueue DEF InQueue
      <3> QED
        BY <2>1, <3>1, <3>2
    <2> QED
      BY <2>2, <2>3
  <1> HIDE DEF enqueueHostFrame, Refused, Requests, Enqueue
  <1>8. ClientTypes'
    BY <1>1, <1>2, <1>3, <1>4, <1>5, <1>6, <1>7 DEF ClientTypes, Parked, Ended, Reconnecting
  <1>9. Processes'
    BY <1>1, <1>2, <1>3, <1>4, <1>5, <1>6, <1>7 DEF Processes
  <1>10. Queues'
    BY <1>1, <1>2, <1>3, <1>4, <1>5, <1>6, <1>7 DEF ClientTypes, Queues, Ended, Reconnecting,
                                                    Parked, Ingress
  <1>11. Handshake'
    BY <1>1, <1>2, <1>3, <1>4, <1>5, <1>6, <1>7 DEF ClientTypes, Handshake, OnIngress, InQueue,
                                                    Ended, Reconnecting, Parked, Ingress
  <1>12. Arriving'
    BY <1>1, <1>2, <1>3, <1>4, <1>5, <1>6, <1>7 DEF ClientTypes, Arriving, Ended, Reconnecting,
                                                    Parked, Ingress
  <1>13. Accepted'
    BY <1>1, <1>2, <1>3, <1>4, <1>5, <1>6, <1>7 DEF ClientTypes, Accepted, Unsent, InQueue,
                                                    WithProxy, Ended, Reconnecting, Parked,
                                                    Ingress
  <1>14. Written'
    BY <1>1, <1>2, <1>3, <1>4, <1>5, <1>6, <1>7 DEF ClientTypes, Written, InOutput, Ended,
                                                    Reconnecting, Parked, Ingress
  <1>15. History'
    <2>1. CASE UNCHANGED admittedAt
      <3>1. \A q \in Req : \/ answers'[q] = answers[q]
                           \/ \E k \in Kinds : answers'[q] = <<k>> /\ (k \in Unwritten => sent[q] = {})
        BY <1>4, <1>6 DEF Kinds, Unwritten
      <3> QED
        BY <1>1, <2>1, <3>1, HistoryKept
    <2>2. CASE UNCHANGED answers
      BY ZenonT(40), <1>1, <1>2, <1>4, <1>6, <2>2 DEF History, ClientTypes
    <2> QED
      BY <1>4, <2>1, <2>2
  <1>16. Fenced'
    BY <1>1, <1>2, <1>3, <1>4, <1>5, <1>6, <1>7 DEF ClientTypes, Fenced, InQueue, Ended,
                                                    Reconnecting, Parked, Ingress
  <1> QED
    BY <1>8, <1>9, <1>10, <1>11, <1>12, <1>13, <1>14, <1>15, <1>16

\* An injected frame is accepted, refused or turned away.
LEMMA Injecting == ASSUME ClientInv, injectFrame PROVE ClientInv'
  <1> USE ClientAssumption DEF ClientInv, injectFrame, Refused, Enqueue, connVars, mainVars,
                               Frame, Commit
  <1>1. /\ UNCHANGED <<msgFromIPC, inflight, held, sequence, pending, wakeup, initialized, suspending, offer>>
        /\ UNCHANGED <<conn, connSequence, reader, writer, main, wake, then, budget, attempt, degraded>>
        /\ UNCHANGED <<host, sent>> /\ ing' = [ing EXCEPT !["inject"] = Idle]
    OBVIOUS
  <1>2. /\ ing["inject"] \in Accepting /\ ing["inject"] # Idle /\ ing["inject"].frame \in Frame
        /\ ing["inject"].seq \in 0..MaxFences /\ ing["inject"].seq # NoFrame
    BY DEF ClientTypes, Ingress, Accepting
  <1>3. /\ ing' \in [Ingress -> {Idle} \cup Accepting] /\ ing'["inject"] = Idle
        /\ \A q \in Ingress : q # "inject" => ing'[q] = ing[q]
    BY <1>1 DEF ClientTypes, Ingress
  <1>4. \/ /\ UNCHANGED <<msgFromCC, cached, quiet, admittedAt>>
           /\ answers' \in [Req -> Seq(Kinds)]
           /\ \A r \in Req : \/ answers'[r] = answers[r]
                             \/ /\ r = ing["inject"].frame /\ answers[r] = <<>>
                                /\ \E k \in Unwritten : answers'[r] = <<k>>
        \/ /\ ~held /\ ing["inject"].seq = sequence /\ msgFromCC' = Append(msgFromCC, ing["inject"].frame)
           /\ Len(msgFromCC) < QueueCap /\ quiet' = FALSE /\ cached' \in BOOLEAN /\ UNCHANGED answers
           /\ admittedAt' = IF ing["inject"].frame \in Req
                            THEN [admittedAt EXCEPT ![ing["inject"].frame] = sequence] ELSE admittedAt
    <2>1. ing["inject"].frame \in Req => answers[ing["inject"].frame] = <<>>
      BY <1>2 DEF Arriving, Ingress
    <2>2. CASE \E k \in {"full", "held"} :
                Answer({ing["inject"].frame}, k) /\ UNCHANGED <<msgFromCC, cached, quiet, admittedAt>>
      BY <2>1, <2>2, AnswerOnce DEF Kinds, Unwritten
    <2>3. CASE ~Refused("inject") /\ Enqueue(ing["inject"].frame, ing["inject"].seq) /\ UNCHANGED answers
      BY <1>2, <2>3 DEF ClientTypes
    <2> QED
      BY <2>2, <2>3
  <1>5. admittedAt' \in [Req -> (0..MaxFences) \cup {NoFrame}] /\ cached' \in BOOLEAN /\ quiet' \in BOOLEAN
    BY <1>2, <1>4 DEF ClientTypes
  <1>6. /\ ing["inject"].frame \in Req =>
             admittedAt[ing["inject"].frame] = NoFrame /\ answers[ing["inject"].frame] = <<>>
        /\ ing["inject"].frame \in Req => sent[ing["inject"].frame] = {}
        /\ ~InQueue(ing["inject"].frame)
    BY <1>2 DEF Arriving, Accepted, Unsent, History, Ingress, Handshake, OnIngress
  <1>7. /\ msgFromCC' \in Seq(Frame) /\ Len(msgFromCC') <= QueueCap /\ Once(msgFromCC')
        /\ \A x : In(msgFromCC', x) =>
             In(msgFromCC, x) \/ (x = ing["inject"].frame /\ ~held /\ ing["inject"].seq = sequence
                                  /\ quiet' = FALSE /\ UNCHANGED answers /\ (x \in Req => admittedAt'[x] = sequence))
    <2>1. msgFromCC \in Seq(Frame) /\ Once(msgFromCC) /\ Len(msgFromCC) \in Nat /\ Len(msgFromCC) <= QueueCap
      BY DEF ClientTypes, Queues
    <2>2. CASE UNCHANGED msgFromCC
      BY <2>1, <2>2
    <2>3. CASE ~UNCHANGED msgFromCC
      <3>1. msgFromCC' = Append(msgFromCC, ing["inject"].frame) /\ Len(msgFromCC) < QueueCap
            /\ quiet' = FALSE /\ UNCHANGED answers /\ ~held /\ ing["inject"].seq = sequence
            /\ (ing["inject"].frame \in Req => admittedAt'[ing["inject"].frame] = sequence)
        BY <1>4, <2>3 DEF ClientTypes
      <3>2. /\ msgFromCC' \in Seq(Frame) /\ Len(msgFromCC') = Len(msgFromCC) + 1
            /\ Once(msgFromCC') /\ \A y : In(msgFromCC', y) <=> In(msgFromCC, y) \/ y = ing["inject"].frame
        BY <1>2, <1>6, <2>1, <3>1, AppendQueue DEF InQueue
      <3> QED
        BY <2>1, <3>1, <3>2
    <2> QED
      BY <2>2, <2>3
  <1> HIDE DEF injectFrame, Refused, Enqueue
  <1>8. ClientTypes'
    BY <1>1, <1>2, <1>3, <1>4, <1>5, <1>6, <1>7 DEF ClientTypes, Parked, Ended, Reconnecting
  <1>9. Processes'
    BY <1>1, <1>2, <1>3, <1>4, <1>5, <1>6, <1>7 DEF Processes
  <1>10. Queues'
    BY <1>1, <1>2, <1>3, <1>4, <1>5, <1>6, <1>7 DEF ClientTypes, Queues, Ended, Reconnecting,
                                                    Parked, Ingress
  <1>11. Handshake'
    BY <1>1, <1>2, <1>3, <1>4, <1>5, <1>6, <1>7 DEF ClientTypes, Handshake, OnIngress, InQueue,
                                                    Ended, Reconnecting, Parked, Ingress
  <1>12. Arriving'
    BY SMTT(30), <1>1, <1>2, <1>3, <1>4, <1>5, <1>6, <1>7 DEF ClientTypes, Arriving, Ended, Reconnecting,
                                                    Parked, Ingress
  <1>13. Accepted'
    BY SMTT(30), <1>1, <1>2, <1>3, <1>4, <1>5, <1>6, <1>7 DEF ClientTypes, Accepted, Unsent, InQueue,
                                                    WithProxy, Ended, Reconnecting, Parked,
                                                    Ingress
  <1>14. Written'
    BY <1>1, <1>2, <1>3, <1>4, <1>5, <1>6, <1>7 DEF ClientTypes, Written, InOutput, Ended,
                                                    Reconnecting, Parked, Ingress
  <1>15. History'
    <2>1. CASE UNCHANGED admittedAt
      <3>1. \A q \in Req : \/ answers'[q] = answers[q]
                           \/ \E k \in Kinds : answers'[q] = <<k>> /\ (k \in Unwritten => sent[q] = {})
        BY <1>4, <1>6 DEF Kinds, Unwritten
      <3> QED
        BY <1>1, <2>1, <3>1, HistoryKept
    <2>2. CASE UNCHANGED answers
      BY ZenonT(40), <1>1, <1>2, <1>4, <1>6, <2>2 DEF History, ClientTypes
    <2> QED
      BY <1>4, <2>1, <2>2
  <1>16. Fenced'
    BY <1>1, <1>2, <1>3, <1>4, <1>5, <1>6, <1>7 DEF ClientTypes, Fenced, InQueue, Ended,
                                                    Reconnecting, Parked, Ingress
  <1> QED
    BY <1>8, <1>9, <1>10, <1>11, <1>12, <1>13, <1>14, <1>15, <1>16

\* The owner hangs up.
LEMMA Breaking == ASSUME ClientInv, ConnectionBreaks PROVE ClientInv'
  <1> USE ClientAssumption DEF ClientInv, ConnectionBreaks, queueVars, fenceVars, idleVars,
                               mainVars, ghostVars, Frame, Commit
  <1>1. ClientTypes'
    <2>1. conn' \in Connection
      BY DEF ClientTypes, Connection
    <2> QED
      BY <2>1 DEF ClientTypes, Ended, Reconnecting, Parked
  <1>2. Queues' /\ Handshake' /\ Arriving' /\ Accepted' /\ Written' /\ History' /\ Fenced'
    BY DEF Queues, Handshake, Arriving, Accepted, Written, History, Fenced, OnIngress, InQueue,
           Unsent, WithProxy, InOutput
  <1>3. Processes'
    BY DEF ClientTypes, Processes, Ended, Reconnecting, Parked
  <1> QED
    BY <1>1, <1>2, <1>3

\* The reader takes an answer, which may report a fence.
LEMMA Reporting ==
  ASSUME ClientInv, NEW r \in Req, NEW fence \in BOOLEAN, ReaderTakes(r, fence)
  PROVE  ClientInv'
  <1> USE ClientAssumption DEF ClientInv, ReaderTakes, observeIPCResponse, enterMaintenance,
                               Queued, Requests, mainVars, Frame, Commit
  <1>1. /\ reader = "run" /\ r \in conn.wire /\ conn.state # "closed" /\ main \notin Ended
        /\ reader' = r /\ inflight' = inflight \ {r} /\ initialized' \in BOOLEAN
        /\ UNCHANGED <<msgFromIPC, pending, wakeup, quiet, suspending, offer, ing, connSequence, writer>>
        /\ UNCHANGED <<main, wake, then, budget, attempt, degraded, host, sent, admittedAt>>
    BY DEF ClientTypes
  <1>2. /\ conn' \in Connection /\ conn'.n = conn.n /\ conn'.state = conn.state /\ conn'.wire = conn.wire \ {r}
    BY DEF ClientTypes, Connection
  <1>3. \/ UNCHANGED <<msgFromCC, held, sequence, cached, answers>>
        \/ /\ msgFromCC' = <<>> /\ held' = TRUE /\ cached' = FALSE /\ sequence' \in 0..MaxFences
           /\ msgFromCC' \in Seq(Frame) /\ Len(msgFromCC') <= QueueCap /\ Once(msgFromCC')
           /\ \A x : ~In(msgFromCC', x)
           /\ answers' \in [Req -> Seq(Kinds)]
           /\ \A q \in Req : \/ answers'[q] = answers[q]
                             \/ InQueue(q) /\ answers[q] = <<>> /\ answers'[q] = <<"held">>
    <2>1. CASE fence
      BY <2>1, FenceEntered
    <2>2. CASE ~fence
      BY <2>2
    <2> QED
      BY <2>1, <2>2
  <1> HIDE DEF ReaderTakes, observeIPCResponse, enterMaintenance, Queued, Requests
  <1>4. ClientTypes'
    <2> HIDE DEF Frame, Commit
    <2>1. /\ msgFromCC' \in Seq(Frame) /\ Len(msgFromCC') <= QueueCap /\ held' \in BOOLEAN
          /\ sequence' \in 0..MaxFences /\ cached' \in BOOLEAN /\ answers' \in [Req -> Seq(Kinds)]
      BY <1>3 DEF ClientTypes
    <2> QED
      <3>1. inflight' \subseteq Req /\ reader' \in Req /\ conn' \in Connection
        BY <1>1, <1>2 DEF ClientTypes
      <3> QED
        BY SMTT(30), <1>1, <2>1, <3>1 DEF ClientTypes
  <1>5. Processes'
    BY <1>1, <1>2, <1>3 DEF ClientTypes, Processes, Ended, Reconnecting, Parked
  <1>6. Queues'
    BY <1>1, <1>2, <1>3 DEF ClientTypes, Queues, Ended, Reconnecting, Parked
  <1>7. Handshake'
    BY <1>1, <1>2, <1>3 DEF ClientTypes, Handshake, OnIngress, InQueue, Ended, Reconnecting,
                            Parked
  <1>8. Arriving'
    <2>1. \A q \in Req : admittedAt[q] = NoFrame => answers'[q] = answers[q]
      BY <1>1, <1>2, <1>3 DEF Accepted, Unsent
    <2> QED
      BY <1>1, <1>2, <1>3, <2>1, ArrivingKept
  <1>9. Accepted'
    <2>1. CASE UNCHANGED <<msgFromCC, answers>>
      BY <1>1, <2>1 DEF Accepted, Unsent, InQueue, WithProxy
    <2>2. CASE /\ \A x : ~In(msgFromCC', x)
               /\ \A q \in Req : answers'[q] = answers[q] \/ InQueue(q)
      BY <1>1, <2>2 DEF Accepted, Unsent, InQueue, WithProxy
    <2> QED
      BY <1>3, <2>1, <2>2
  <1>10. Written'
    BY SMTT(30), <1>1, <1>2, <1>3 DEF ClientTypes, Written, InOutput, Accepted, Processes, Unsent, InQueue,
                            WithProxy, Ended, Reconnecting, Parked
  <1>11. History'
    <2>1. \A q \in Req : \/ answers'[q] = answers[q]
                         \/ \E k \in Kinds : answers'[q] = <<k>> /\ (k \in Unwritten => sent[q] = {})
      BY <1>1, <1>2, <1>3 DEF Accepted, Unsent, Kinds, Unwritten
    <2> QED
      BY <1>1, <1>2, <1>3, <2>1, HistoryKept
  <1>12. Fenced'
    BY SMTT(30), <1>1, <1>2, <1>3 DEF ClientTypes, Fenced, InQueue, Processes, Ended, Reconnecting, Parked
  <1> QED
    BY <1>4, <1>5, <1>6, <1>7, <1>8, <1>9, <1>10, <1>11, <1>12

\* The reader hands an answer to the stdout writer.
LEMMA Relaying == ASSUME ClientInv, ReaderQueues PROVE ClientInv'
  <1> USE ClientAssumption DEF ClientInv, ReaderQueues, fenceVars, idleVars, mainVars, ghostVars,
                               Frame, Commit
  <1>1. /\ reader \in Req /\ reader' \in {"run", "eof"}
        /\ UNCHANGED <<msgFromCC, inflight, held, sequence, pending, wakeup, cached, initialized, quiet>>
        /\ UNCHANGED <<suspending, offer, ing, conn, connSequence, writer, main, wake, then, budget, attempt>>
        /\ UNCHANGED <<degraded, host, answers, sent, admittedAt>>
    OBVIOUS
  <1>2. /\ msgFromIPC' \in Seq(Req) /\ Once(msgFromIPC')
        /\ \A x : In(msgFromIPC', x) => In(msgFromIPC, x) \/ x = reader
    BY <1>1, AppendQueue DEF ClientTypes, Queues, Written, InOutput
  <1> HIDE DEF ReaderQueues
  <1>3. ClientTypes'
    BY <1>1, <1>2 DEF ClientTypes, Parked, Ended, Reconnecting
  <1>4. Processes' /\ Handshake' /\ Arriving' /\ Accepted' /\ History' /\ Fenced'
    BY <1>1, <1>2 DEF Processes, Handshake, Arriving, Accepted, History, Fenced, OnIngress,
                      InQueue, Unsent, WithProxy
  <1>5. Queues'
    BY <1>1, <1>2 DEF ClientTypes, Queues, Ended, Reconnecting, Parked
  <1>6. Written'
    BY <1>1, <1>2 DEF ClientTypes, Written, InOutput, Ended, Reconnecting, Parked
  <1> QED
    BY <1>3, <1>4, <1>5, <1>6

\* The reader meets the end of the connection.
LEMMA ReadingEnds == ASSUME ClientInv, ReaderEnds PROVE ClientInv'
  <1> USE ClientAssumption DEF ClientInv, ReaderEnds, queueVars, fenceVars, idleVars, mainVars,
                               ghostVars, Frame, Commit
  <1>1. ClientTypes'
    BY DEF ClientTypes, Ingress, Ended, Reconnecting, Parked
  <1>2. Processes' /\ Queues' /\ Handshake' /\ Arriving' /\ Accepted' /\ History' /\ Fenced'
    BY DEF Processes, Queues, Handshake, Arriving, Accepted, History, Fenced, OnIngress, InQueue,
           Unsent, WithProxy
  <1>3. Written'
    BY DEF ClientTypes, Written, InOutput, Ended, Reconnecting, Parked
  <1> QED
    BY <1>1, <1>2, <1>3

\* An answer of the owner reaches the host.
LEMMA Printing == ASSUME ClientInv, StdoutWrites PROVE ClientInv'
  <1> USE ClientAssumption DEF ClientInv, StdoutWrites, fenceVars, idleVars, connVars, mainVars,
                               Frame, Commit
  <1>1. /\ UNCHANGED <<msgFromCC, inflight, held, sequence, pending, wakeup, cached, initialized, quiet>>
        /\ UNCHANGED <<suspending, offer, ing, conn, connSequence, reader, writer, main, wake, then, budget>>
        /\ UNCHANGED <<attempt, degraded, host, sent, admittedAt>>
    OBVIOUS
  <1>2. /\ msgFromIPC' \in Seq(Req) /\ Once(msgFromIPC') /\ Head(msgFromIPC) \in Req
        /\ InOutput(Head(msgFromIPC))
        /\ \A x : In(msgFromIPC', x) <=> In(msgFromIPC, x) /\ x # Head(msgFromIPC)
    BY TailQueue DEF ClientTypes, Queues, InOutput
  <1>3. /\ answers' \in [Req -> Seq(Kinds)]
        /\ \A r \in Req : \/ answers'[r] = answers[r]
                          \/ r = Head(msgFromIPC) /\ answers[r] = <<>> /\ answers'[r] = <<"result">>
    <2>1. answers[Head(msgFromIPC)] = <<>>
      BY <1>2 DEF Written
    <2> QED
      BY <1>2, <2>1, AnswerOnce DEF Kinds
  <1> HIDE DEF StdoutWrites
  <1>4. ClientTypes'
    <2> HIDE DEF Frame, Commit
    <2>1. msgFromIPC' \in Seq(Req) /\ answers' \in [Req -> Seq(Kinds)]
      BY <1>2, <1>3
    <2> QED
      BY <1>1, <2>1 DEF ClientTypes
  <1>5. Processes' /\ Handshake' /\ Fenced'
    BY <1>1, <1>2, <1>3 DEF Processes, Handshake, Fenced, OnIngress, InQueue
  <1>6. Queues'
    BY <1>1, <1>2, <1>3 DEF ClientTypes, Queues, Ended, Reconnecting, Parked
  <1>7. Arriving'
    <2>1. \A q \in Req : admittedAt[q] = NoFrame => answers'[q] = answers[q]
      BY <1>1, <1>2, <1>3 DEF Written, History
    <2> QED
      BY <1>1, <1>2, <1>3, <2>1, ArrivingKept
  <1>8. Accepted'
    BY <1>1, <1>2, <1>3 DEF ClientTypes, Accepted, Unsent, InQueue, WithProxy, Written, InOutput,
                            Ended, Reconnecting, Parked
  <1>9. Written'
    BY <1>1, <1>2, <1>3 DEF ClientTypes, Written, InOutput, Ended, Reconnecting, Parked
  <1>10. History'
    <2>1. \A q \in Req : \/ answers'[q] = answers[q]
                         \/ \E k \in Kinds : answers'[q] = <<k>> /\ (k \in Unwritten => sent[q] = {})
      BY <1>1, <1>2, <1>3 DEF Written, InOutput, Kinds, Unwritten
    <2> QED
      BY <1>1, <1>2, <1>3, <2>1, HistoryKept
  <1> QED
    BY <1>4, <1>5, <1>6, <1>7, <1>8, <1>9, <1>10

\* The writer takes a frame from the queue.
LEMMA Taking == ASSUME ClientInv, WriterTakes PROVE ClientInv'
  <1> USE ClientAssumption DEF ClientInv, WriterTakes, fenceVars, idleVars, mainVars, ghostVars,
                               Frame, Commit
  <1>1. /\ writer = "run" /\ writer' = Head(msgFromCC)
        /\ UNCHANGED <<msgFromIPC, inflight, held, sequence, pending, wakeup, cached, initialized, quiet>>
        /\ UNCHANGED <<suspending, offer, ing, conn, connSequence, reader, main, wake, then, budget, attempt>>
        /\ UNCHANGED <<degraded, host, answers, sent, admittedAt>>
    OBVIOUS
  <1>2. /\ msgFromCC' \in Seq(Frame) /\ Len(msgFromCC') <= QueueCap /\ Once(msgFromCC')
        /\ Head(msgFromCC) \in Frame /\ InQueue(Head(msgFromCC)) /\ msgFromCC # <<>>
        /\ \A x : In(msgFromCC', x) <=> In(msgFromCC, x) /\ x # Head(msgFromCC)
    <2>1. msgFromCC \in Seq(Frame) /\ Len(msgFromCC) \in Nat /\ Len(msgFromCC') \in Nat
      BY DEF ClientTypes
    <2> QED
      BY <2>1, TailQueue DEF ClientTypes, Queues, InQueue
  <1> HIDE DEF WriterTakes
  <1>3. ClientTypes'
    BY <1>1, <1>2 DEF ClientTypes, Parked, Ended, Reconnecting
  <1>4. Arriving' /\ Written' /\ History'
    BY <1>1, <1>2 DEF Arriving, Written, History, InOutput
  <1>5. Processes'
    BY <1>1, <1>2 DEF ClientTypes, Processes, Ended, Reconnecting, Parked
  <1>6. Queues'
    BY <1>1, <1>2 DEF ClientTypes, Queues, Ended, Reconnecting, Parked
  <1>7. Handshake'
    BY <1>1, <1>2 DEF ClientTypes, Handshake, OnIngress, InQueue, Ended, Reconnecting, Parked
  <1>8. Accepted'
    BY <1>1, <1>2 DEF ClientTypes, Accepted, Unsent, InQueue, WithProxy, Ended, Reconnecting,
                      Parked
  <1>9. Fenced'
    BY <1>1, <1>2 DEF ClientTypes, Fenced, InQueue, Ended, Reconnecting, Parked
  <1> QED
    BY <1>3, <1>4, <1>5, <1>6, <1>7, <1>8, <1>9

\* The writer sends its frame, defers it or refuses it.
LEMMA Forwarding ==
  ASSUME ClientInv, NEW failed \in BOOLEAN, WriterForwards(failed)
  PROVE  ClientInv'
  <1> USE ClientAssumption DEF ClientInv, WriterForwards, forwardToIPC, fenceVars, idleVars,
                               Frame, Commit
  <1>1. /\ writer \in Frame /\ main \notin Ended /\ writer' \in {"run", "done"}
        /\ UNCHANGED <<msgFromCC, msgFromIPC, held, sequence, pending, wakeup, cached, initialized, quiet>>
        /\ UNCHANGED <<suspending, offer, ing, connSequence, reader, main, then, budget, attempt, degraded>>
        /\ UNCHANGED <<host, admittedAt>>
    OBVIOUS
  <1>2. main \notin {"suspend", "suspended", "negotiate"} \/ writer # Commit
    BY <1>1 DEF Handshake, Processes, Parked, Reconnecting
  <1>3. \/ /\ wake' = writer /\ writer' = "done" /\ writer \in Req /\ UNCHANGED <<inflight, conn, answers, sent>>
        \/ UNCHANGED <<wake, inflight, conn, answers, sent>>
        \/ /\ UNCHANGED <<wake, inflight, conn, sent>> /\ writer \in Req /\ held /\ ~suspending
           /\ answers' \in [Req -> Seq(Kinds)]
           /\ \A r \in Req : \/ answers'[r] = answers[r]
                             \/ r = writer /\ answers[r] = <<>> /\ answers'[r] = <<"held">>
        \/ /\ UNCHANGED <<wake, answers>> /\ ~held /\ writer \in Req /\ inflight' = inflight \cup {writer}
           /\ sent' = [sent EXCEPT ![writer] = @ \cup {conn.n}]
           /\ conn' = IF conn.state = "open" THEN [conn EXCEPT !.wire = @ \cup {writer}] ELSE conn
    <2>1. writer # Commit => writer \in Req
      BY <1>1
    <2>2. CASE suspending \/ (writer # Commit /\ reader = "eof")
      <3>1. writer # Commit
        BY <1>1, <1>2, <2>2 DEF Processes, Parked, Handshake
      <3> QED
        BY <2>1, <2>2, <3>1
    <2>3. CASE ~(suspending \/ (writer # Commit /\ reader = "eof")) /\ writer # Commit /\ held
      <3>1. answers[writer] = <<>> /\ Answer({writer}, "held") /\ writer \in Req
        BY <2>1, <2>3 DEF Accepted, Unsent
      <3> QED
        BY <2>3, <3>1, AnswerOnce DEF Kinds
    <2>4. CASE ~(suspending \/ (writer # Commit /\ reader = "eof")) /\ writer # Commit /\ ~held
      BY <2>1, <2>4
    <2>5. CASE ~(suspending \/ (writer # Commit /\ reader = "eof")) /\ writer = Commit
      BY <2>5
    <2> QED
      BY <2>2, <2>3, <2>4, <2>5
  <1>4. /\ writer \in Req => sent[writer] = {} /\ answers[writer] = <<>>
        /\ conn' \in Connection /\ conn'.n = conn.n /\ conn'.state = conn.state
        /\ \/ conn'.wire = conn.wire
           \/ /\ writer \in Req /\ inflight' = inflight \cup {writer}
              /\ conn'.wire = conn.wire \cup {writer}
        /\ inflight \subseteq inflight' /\ inflight' \subseteq Req
    BY SMTT(30), <1>3 DEF ClientTypes, Connection, Accepted, Unsent
  <1>5. /\ sent' \in [Req \cup {Replay} -> SUBSET (1..MaxConn)]
        /\ \A r \in Req : sent'[r] = IF r = writer /\ r \in inflight' THEN {conn.n} ELSE sent[r]
        /\ conn.n \in 1..MaxConn /\ (writer \in inflight' => UNCHANGED answers)
    <2>1. conn.n \in 1..MaxConn /\ sent \in [Req \cup {Replay} -> SUBSET (1..MaxConn)]
      BY DEF ClientTypes, Connection
    <2>2. writer \in Req => writer \notin inflight
      BY <1>4 DEF Written
    <2>3. CASE UNCHANGED sent /\ UNCHANGED inflight
      BY <1>1, <2>1, <2>2, <2>3
    <2>4. CASE /\ UNCHANGED answers /\ writer \in Req /\ inflight' = inflight \cup {writer}
               /\ sent' = [sent EXCEPT ![writer] = @ \cup {conn.n}]
      BY <1>4, <2>1, <2>4
    <2> QED
      BY <1>3, <2>3, <2>4
  <1> HIDE DEF WriterForwards, forwardToIPC
  <1>6. ClientTypes'
    BY SMTT(30), <1>1, <1>2, <1>3, <1>4, <1>5 DEF ClientTypes, Parked, Ended, Reconnecting
  <1>7. Queues'
    BY <1>1, <1>2, <1>3, <1>4, <1>5 DEF Queues
  <1>8. Processes'
    BY <1>1, <1>2, <1>3, <1>4, <1>5 DEF ClientTypes, Processes, Ended, Reconnecting, Parked
  <1>9. Handshake'
    BY <1>1, <1>2, <1>3, <1>4, <1>5 DEF ClientTypes, Handshake, OnIngress, InQueue, Ended,
                                        Reconnecting, Parked
  <1>10. Arriving'
    BY <1>1, <1>2, <1>3, <1>4, <1>5 DEF ClientTypes, Arriving, Accepted, Unsent, InQueue,
                                        WithProxy, Ended, Reconnecting, Parked
  <1>11. Accepted'
    BY SMTT(30), <1>1, <1>2, <1>3, <1>4, <1>5 DEF ClientTypes, Accepted, Unsent, InQueue, WithProxy, Ended,
                                        Reconnecting, Parked
  <1>12. Written'
    BY ZenonT(40), <1>1, <1>2, <1>3, <1>4, <1>5 DEF ClientTypes, Written, InOutput, Ended, Reconnecting,
                                        Parked
  <1>13. History'
    <2>1. CASE UNCHANGED sent
      <3>1. \A q \in Req : \/ answers'[q] = answers[q]
                           \/ \E k \in Kinds : answers'[q] = <<k>> /\ (k \in Unwritten => sent[q] = {})
        BY <1>3, <1>4 DEF Kinds
      <3> QED
        BY <1>1, <2>1, <3>1, HistoryKept
    <2>2. CASE UNCHANGED answers
      BY <1>1, <1>4, <1>5, <2>2, OneLine DEF History, Accepted, Unsent
    <2> QED
      BY <1>3, <2>1, <2>2
  <1>14. Fenced'
    BY <1>1, <1>2, <1>3, <1>4, <1>5 DEF ClientTypes, Fenced, InQueue, Processes, Ended,
                                        Reconnecting, Parked
  <1> QED
    BY <1>6, <1>7, <1>8, <1>9, <1>10, <1>11, <1>12, <1>13, <1>14

\* The writer ends with its connection.
LEMMA WritingEnds == ASSUME ClientInv, WriterEnds PROVE ClientInv'
  <1> USE ClientAssumption DEF ClientInv, WriterEnds, queueVars, fenceVars, idleVars, mainVars,
                               ghostVars, Frame, Commit
  <1>1. ClientTypes'
    BY DEF ClientTypes, Ingress, Ended, Reconnecting, Parked
  <1>2. Queues' /\ Arriving' /\ Written' /\ History'
    BY DEF Queues, Arriving, Written, History, InOutput
  <1>3. Processes'
    BY DEF ClientTypes, Processes, Ended, Reconnecting, Parked
  <1>4. Handshake'
    BY DEF ClientTypes, Handshake, OnIngress, InQueue, Ended, Reconnecting, Parked
  <1>5. Accepted'
    BY DEF ClientTypes, Accepted, Unsent, InQueue, WithProxy, Ended, Reconnecting, Parked
  <1>6. Fenced'
    BY DEF ClientTypes, Fenced, InQueue, Ended, Reconnecting, Parked
  <1> QED
    BY <1>1, <1>2, <1>3, <1>4, <1>5, <1>6

\* The host has closed stdin.
LEMMA HostEnds == ASSUME ClientInv, HostEOF PROVE ClientInv'
  <1> USE ClientAssumption DEF ClientInv, HostEOF, PendingOutput, Close, Goto, queueVars,
                               fenceVars, idleVars, mainVars, ghostVars, Frame, Commit
  <1>1. /\ main = "proxy" /\ main' \in {"proxy", "exit", "drain"} /\ host' \in {"eof", "ignored"}
        /\ UNCHANGED <<msgFromCC, msgFromIPC, inflight, held, sequence, pending, wakeup, cached, initialized>>
        /\ UNCHANGED <<quiet, suspending, offer, ing, connSequence, reader, writer, wake, then, budget>>
        /\ UNCHANGED <<attempt, degraded, answers, sent, admittedAt>>
    OBVIOUS
  <1>2. /\ conn' \in Connection /\ conn'.n = conn.n /\ conn'.wire = conn.wire
        /\ conn'.state \in {conn.state, "closed"}
    BY ConnectionClosed DEF ClientTypes
  <1> HIDE DEF HostEOF, PendingOutput, Close, Goto
  <1>3. ClientTypes'
    BY <1>1, <1>2 DEF ClientTypes, Parked, Ended, Reconnecting
  <1>4. Queues' /\ Arriving' /\ Written' /\ History'
    BY <1>1, <1>2 DEF Queues, Arriving, Written, History, InOutput
  <1>5. Processes'
    BY <1>1, <1>2 DEF ClientTypes, Processes, Ended, Reconnecting, Parked
  <1>6. Handshake'
    BY <1>1, <1>2 DEF ClientTypes, Handshake, OnIngress, InQueue, Ended, Reconnecting, Parked
  <1>7. Accepted'
    BY <1>1, <1>2 DEF ClientTypes, Accepted, Unsent, InQueue, WithProxy, Ended, Reconnecting,
                      Parked
  <1>8. Fenced'
    BY <1>1, <1>2 DEF ClientTypes, Fenced, InQueue, Ended, Reconnecting, Parked
  <1> QED
    BY <1>3, <1>4, <1>5, <1>6, <1>7, <1>8

\* The drain is over.
LEMMA Draining == ASSUME ClientInv, NEW deadline \in BOOLEAN, DrainEnds(deadline) PROVE ClientInv'
  <1> USE ClientAssumption DEF ClientInv, DrainEnds, PendingOutput, Close, Goto, queueVars,
                               fenceVars, idleVars, ghostVars, Frame, Commit
  <1>1. ClientTypes'
    <2>1. conn' \in Connection
      BY DEF ClientTypes, Connection
    <2> QED
      BY SMTT(30), <2>1 DEF ClientTypes, Ended, Reconnecting, Parked
  <1>2. Queues' /\ Arriving' /\ Written' /\ History'
    BY DEF Queues, Arriving, Written, History, InOutput
  <1>3. Processes'
    BY DEF ClientTypes, Processes, Ended, Reconnecting, Parked
  <1>4. Handshake'
    BY DEF ClientTypes, Handshake, OnIngress, InQueue, Ended, Reconnecting, Parked
  <1>5. Accepted'
    BY DEF ClientTypes, Accepted, Unsent, InQueue, WithProxy, Ended, Reconnecting, Parked
  <1>6. Fenced'
    BY DEF ClientTypes, Fenced, InQueue, Ended, Reconnecting, Parked
  <1> QED
    BY <1>1, <1>2, <1>3, <1>4, <1>5, <1>6

\* The host is gone.
LEMMA Abandoned == ASSUME ClientInv, HostGone PROVE ClientInv'
  <1> USE ClientAssumption DEF ClientInv, HostGone, Close, Goto, queueVars, fenceVars, idleVars,
                               ghostVars, Frame, Commit
  <1>1. ClientTypes'
    <2>1. conn' \in Connection
      BY DEF ClientTypes, Connection
    <2> QED
      BY <2>1 DEF ClientTypes, Ended, Reconnecting, Parked
  <1>2. Queues' /\ Arriving' /\ Written' /\ History'
    BY DEF Queues, Arriving, Written, History, InOutput
  <1>3. Processes'
    BY DEF ClientTypes, Processes, Ended, Reconnecting, Parked
  <1>4. Handshake'
    BY DEF ClientTypes, Handshake, OnIngress, InQueue, Ended, Reconnecting, Parked
  <1>5. Accepted'
    BY DEF ClientTypes, Accepted, Unsent, InQueue, WithProxy, Ended, Reconnecting, Parked
  <1>6. Fenced'
    BY DEF ClientTypes, Fenced, InQueue, Ended, Reconnecting, Parked
  <1> QED
    BY <1>1, <1>2, <1>3, <1>4, <1>5, <1>6

\* A resume closes the connection.
LEMMA Resuming == ASSUME ClientInv, ResumeWake PROVE ClientInv'
  <1> USE ClientAssumption DEF ClientInv, ResumeWake, Close, queueVars, idleVars, mainVars,
                               ghostVars, Frame, Commit
  <1>1. ClientTypes'
    <2>1. conn' \in Connection
      BY DEF ClientTypes, Connection
    <2>2. wakeup' \in BOOLEAN
      OBVIOUS
    <2> QED
      BY SMTT(30), <2>1, <2>2 DEF ClientTypes, Ended, Reconnecting, Parked
  <1>2. Queues' /\ Handshake' /\ Arriving' /\ Accepted' /\ Written' /\ History' /\ Fenced'
    BY DEF Queues, Handshake, Arriving, Accepted, Written, History, Fenced, OnIngress, InQueue,
           Unsent, WithProxy, InOutput
  <1>3. Processes'
    BY DEF ClientTypes, Processes, Ended, Reconnecting, Parked
  <1> QED
    BY <1>1, <1>2, <1>3

\* The proxy loop notices the lost connection.
LEMMA Losing == ASSUME ClientInv, ConnectionLost PROVE ClientInv'
  <1> USE ClientAssumption DEF ClientInv, ConnectionLost, Close, Goto, queueVars, fenceVars,
                               idleVars, ghostVars, Frame, Commit
  <1>1. ClientTypes'
    <2>1. conn' \in Connection
      BY DEF ClientTypes, Connection
    <2> QED
      BY <2>1 DEF ClientTypes, Ended, Reconnecting, Parked
  <1>2. Queues' /\ Arriving' /\ Written' /\ History'
    BY DEF Queues, Arriving, Written, History, InOutput
  <1>3. Processes'
    BY DEF ClientTypes, Processes, Ended, Reconnecting, Parked
  <1>4. Handshake'
    BY DEF ClientTypes, Handshake, OnIngress, InQueue, Ended, Reconnecting, Parked
  <1>5. Accepted'
    BY DEF ClientTypes, Accepted, Unsent, InQueue, WithProxy, Ended, Reconnecting, Parked
  <1>6. Fenced'
    BY DEF ClientTypes, Fenced, InQueue, Ended, Reconnecting, Parked
  <1> QED
    BY <1>1, <1>2, <1>3, <1>4, <1>5, <1>6

\* The proxy loop has joined the writer.
LEMMA Joining == ASSUME ClientInv, JoinWriter PROVE ClientInv'
  <1> USE ClientAssumption DEF ClientInv, JoinWriter, queueVars, fenceVars, idleVars, connVars,
                               ghostVars, Frame, Commit
  <1>1. ClientTypes'
    BY DEF ClientTypes, Ingress, Ended, Reconnecting, Parked
  <1>2. Queues' /\ Arriving' /\ Written' /\ History'
    BY DEF Queues, Arriving, Written, History, InOutput
  <1>3. Processes'
    BY DEF ClientTypes, Processes, Ended, Reconnecting, Parked
  <1>4. Handshake'
    BY DEF ClientTypes, Handshake, OnIngress, InQueue, Ended, Reconnecting, Parked
  <1>5. Accepted'
    BY DEF ClientTypes, Accepted, Unsent, InQueue, WithProxy, Ended, Reconnecting, Parked
  <1>6. Fenced'
    BY DEF ClientTypes, Fenced, InQueue, Ended, Reconnecting, Parked
  <1> QED
    BY <1>1, <1>2, <1>3, <1>4, <1>5, <1>6

\* The idle delay passes.
LEMMA Idling == ASSUME ClientInv, DelayPasses PROVE ClientInv'
  <1> USE ClientAssumption DEF ClientInv, DelayPasses, LocalWork, PendingOutput, queueVars,
                               fenceVars, connVars, mainVars, ghostVars, Frame, Commit
  <1>1. ClientTypes'
    BY DEF ClientTypes, Ingress, Ended, Reconnecting, Parked
  <1>2. Processes' /\ Queues' /\ Arriving' /\ Accepted' /\ Written' /\ History' /\ Fenced'
    BY DEF Processes, Queues, Arriving, Accepted, Written, History, Fenced, Unsent, InQueue,
           WithProxy, InOutput
  <1>3. Handshake'
    BY EmptyQueue DEF ClientTypes, Handshake, OnIngress, InQueue, LocalWork, Ingress, Ended,
                      Reconnecting, Parked
  <1> QED
    BY <1>1, <1>2, <1>3

\* The suspend gate is asked.
LEMMA Asking == ASSUME ClientInv, IdleTick PROVE ClientInv'
  <1> USE ClientAssumption DEF ClientInv, IdleTick, shouldIdleSuspend, LocalWork, Goto, queueVars,
                               fenceVars, idleVars, connVars, ghostVars, Frame, Commit
  <1>1. ClientTypes'
    BY DEF ClientTypes, Ingress, Ended, Reconnecting, Parked
  <1>2. Queues' /\ Arriving' /\ Written' /\ History'
    BY DEF Queues, Arriving, Written, History, InOutput
  <1>3. Processes'
    BY DEF ClientTypes, Processes, Ended, Reconnecting, Parked
  <1>4. Handshake'
    BY DEF ClientTypes, Handshake, OnIngress, InQueue, Ended, Reconnecting, Parked
  <1>5. Accepted'
    BY DEF ClientTypes, Accepted, Unsent, InQueue, WithProxy, Ended, Reconnecting, Parked
  <1>6. Fenced'
    BY DEF ClientTypes, Fenced, InQueue, Ended, Reconnecting, Parked
  <1> QED
    BY <1>1, <1>2, <1>3, <1>4, <1>5, <1>6

\* The suspend gate answers.
LEMMA Suspending ==
  ASSUME ClientInv, NEW allowed \in BOOLEAN, GateAnswers(allowed)
  PROVE  ClientInv'
  <1> USE ClientAssumption DEF ClientInv, GateAnswers, beginIdleSuspend, shouldIdleSuspend,
                               LocalWork, Close, Goto, queueVars, fenceVars, ghostVars, Frame,
                               Commit
  <1>1. /\ main = "gate" /\ main' \in {"proxy", "suspend"} /\ suspending' \in BOOLEAN
        /\ main' = "suspend" => wake = NoFrame /\ msgFromCC = <<>> /\ writer \notin Frame /\ quiet
        /\ main' = "proxy" => suspending' = suspending /\ UNCHANGED conn
        /\ UNCHANGED <<msgFromCC, msgFromIPC, inflight, held, sequence, pending, wakeup, cached, initialized>>
        /\ UNCHANGED <<quiet, offer, ing, connSequence, reader, writer, wake, then, budget>>
        /\ UNCHANGED <<attempt, degraded, host, answers, sent, admittedAt>>
    BY DEF ClientTypes
  <1>2. /\ conn' \in Connection /\ conn'.n = conn.n /\ conn'.wire = conn.wire
        /\ main' = "suspend" => conn'.state = "closed" 
    BY ConnectionClosed DEF ClientTypes
  <1>3. OnIngress(Commit) => ~quiet
    BY <1>1 DEF Handshake, Ended
  <1> HIDE DEF GateAnswers, beginIdleSuspend, shouldIdleSuspend, LocalWork, Close, Goto
  <1>4. ClientTypes'
    BY <1>1, <1>2, <1>3 DEF ClientTypes, Parked, Ended, Reconnecting
  <1>5. Queues' /\ Arriving' /\ Written' /\ History'
    BY <1>1, <1>2, <1>3 DEF Queues, Arriving, Written, History, InOutput
  <1>6. Processes'
    BY <1>1, <1>2, <1>3 DEF ClientTypes, Processes, Ended, Reconnecting, Parked
  <1>7. Handshake'
    BY <1>1, <1>2, <1>3, EmptyQueue DEF ClientTypes, Handshake, OnIngress, InQueue, Ended,
                                        Reconnecting, Parked
  <1>8. Accepted'
    BY <1>1, <1>2, <1>3, EmptyQueue DEF ClientTypes, Accepted, Unsent, InQueue, WithProxy, Ended,
                                        Reconnecting, Parked
  <1>9. Fenced'
    BY <1>1, <1>2, <1>3, EmptyQueue DEF ClientTypes, Fenced, InQueue, Ended, Reconnecting, Parked
  <1> QED
    BY <1>4, <1>5, <1>6, <1>7, <1>8, <1>9

\* A frame wakes the suspended client.
LEMMA Demanding == ASSUME ClientInv, waitForSuspendedDemand PROVE ClientInv'
  <1> USE ClientAssumption DEF ClientInv, waitForSuspendedDemand, Demand, fenceVars, idleVars,
                               connVars, ghostVars, Frame, Commit
  <1>1. /\ main = "suspended" /\ main' \in {"suspended", "reconnect"}
        /\ UNCHANGED <<msgFromIPC, inflight, held, sequence, pending, wakeup, cached, initialized, quiet>>
        /\ UNCHANGED <<suspending, offer, ing, conn, connSequence, reader, writer, then, budget, attempt>>
        /\ UNCHANGED <<degraded, host, answers, sent, admittedAt>>
    OBVIOUS
  <1>2. /\ msgFromCC' \in Seq(Frame) /\ Len(msgFromCC') <= QueueCap /\ Once(msgFromCC')
        /\ \A x : In(msgFromCC', x) => In(msgFromCC, x)
        /\ UNCHANGED msgFromCC \/ msgFromCC # <<>>
        /\ \/ wake' = NoFrame
           \/ /\ main' = "reconnect" /\ wake' \in Req
              /\ wake' = wake \/ (In(msgFromCC, wake') /\ ~In(msgFromCC', wake'))
    <2>1. msgFromCC \in Seq(Frame) /\ Once(msgFromCC) /\ Len(msgFromCC) \in Nat /\ Len(msgFromCC) <= QueueCap
          /\ wake \in Req \cup {NoFrame}
      BY DEF ClientTypes, Queues
    <2>2. CASE wake # NoFrame
      BY <2>1, <2>2
    <2>3. CASE wake = NoFrame
      <3>1. /\ msgFromCC # <<>> /\ msgFromCC' = Tail(msgFromCC)
            /\ wake' = NoFrame \/ (main' = "reconnect" /\ wake' = Head(msgFromCC) /\ wake' # Commit)
        BY <2>3
      <3>2. /\ Head(msgFromCC) \in Frame /\ In(msgFromCC, Head(msgFromCC)) /\ msgFromCC' \in Seq(Frame)
            /\ Len(msgFromCC') <= Len(msgFromCC) /\ Len(msgFromCC') \in Nat /\ Once(msgFromCC')
            /\ \A y : In(msgFromCC', y) <=> In(msgFromCC, y) /\ y # Head(msgFromCC)
        BY <2>1, <3>1, TailQueue
      <3> HIDE DEF waitForSuspendedDemand
      <3>3. Len(msgFromCC') <= QueueCap
        BY <2>1, <3>2
      <3> QED
        BY <3>1, <3>2, <3>3
    <2> QED
      BY <2>2, <2>3
  <1> HIDE DEF waitForSuspendedDemand, Demand
  <1>3. ClientTypes'
    BY <1>1, <1>2 DEF ClientTypes, Parked, Ended, Reconnecting
  <1>4. Arriving' /\ Written' /\ History'
    BY <1>1, <1>2 DEF Arriving, Written, History, InOutput
  <1>5. Processes'
    BY <1>1, <1>2 DEF ClientTypes, Processes, Ended, Reconnecting, Parked
  <1>6. Queues'
    BY <1>1, <1>2 DEF ClientTypes, Queues, Ended, Reconnecting, Parked
  <1>7. Handshake'
    BY <1>1, <1>2 DEF ClientTypes, Handshake, OnIngress, InQueue, Ended, Reconnecting, Parked
  <1>8. Accepted'
    BY <1>1, <1>2 DEF ClientTypes, Accepted, Unsent, InQueue, WithProxy, Ended, Reconnecting,
                      Parked
  <1>9. Fenced'
    BY <1>1, <1>2 DEF ClientTypes, Fenced, InQueue, Ended, Reconnecting, Parked
  <1> QED
    BY <1>3, <1>4, <1>5, <1>6, <1>7, <1>8, <1>9

\* A resume wakes the suspended client.
LEMMA Waking == ASSUME ClientInv, SuspendedWake PROVE ClientInv'
  <1> USE ClientAssumption DEF ClientInv, SuspendedWake, Demand, queueVars, idleVars, connVars,
                               ghostVars, Frame, Commit
  <1>1. ClientTypes'
    <2>1. wakeup' \in BOOLEAN
      OBVIOUS
    <2> QED
      BY <2>1 DEF ClientTypes, Ended, Reconnecting, Parked
  <1>2. Queues' /\ Arriving' /\ Written' /\ History'
    BY DEF Queues, Arriving, Written, History, InOutput
  <1>3. Processes'
    BY DEF ClientTypes, Processes, Ended, Reconnecting, Parked
  <1>4. Handshake'
    BY DEF ClientTypes, Handshake, OnIngress, InQueue, Ended, Reconnecting, Parked
  <1>5. Accepted'
    BY DEF ClientTypes, Accepted, Unsent, InQueue, WithProxy, Ended, Reconnecting, Parked
  <1>6. Fenced'
    BY DEF ClientTypes, Fenced, InQueue, Ended, Reconnecting, Parked
  <1> QED
    BY <1>1, <1>2, <1>3, <1>4, <1>5, <1>6

\* Dormancy is offered.
LEMMA Offering == ASSUME ClientInv, GraceExpires PROVE ClientInv'
  <1> USE ClientAssumption DEF ClientInv, GraceExpires, PendingOutput, Goto, queueVars, fenceVars,
                               connVars, ghostVars, Frame, Commit
  <1>1. ClientTypes'
    BY DEF ClientTypes, Ingress, Ended, Reconnecting, Parked
  <1>2. Queues' /\ Arriving' /\ Written' /\ History'
    BY DEF Queues, Arriving, Written, History, InOutput
  <1>3. Processes'
    BY DEF ClientTypes, Processes, Ended, Reconnecting, Parked
  <1>4. Handshake'
    BY DEF ClientTypes, Handshake, OnIngress, InQueue, Ended, Reconnecting, Parked
  <1>5. Accepted'
    BY DEF ClientTypes, Accepted, Unsent, InQueue, WithProxy, Ended, Reconnecting, Parked
  <1>6. Fenced'
    BY DEF ClientTypes, Fenced, InQueue, Ended, Reconnecting, Parked
  <1> QED
    BY <1>1, <1>2, <1>3, <1>4, <1>5, <1>6

\* Dormancy is committed, or refused for a demand.
LEMMA Negotiating == ASSUME ClientInv, negotiateDormant PROVE ClientInv'
  <1> USE ClientAssumption DEF ClientInv, negotiateDormant, Goto, Demand, fenceVars, connVars,
                               ghostVars, Frame, Commit
  <1>1. /\ main = "negotiate" /\ msgFromCC # <<>> /\ offer' = "none"
        /\ UNCHANGED <<msgFromIPC, inflight, held, sequence, pending, wakeup, cached, initialized, quiet>>
        /\ UNCHANGED <<suspending, ing, conn, connSequence, reader, writer, then, budget, attempt, degraded>>
        /\ UNCHANGED <<host, answers, sent, admittedAt>>
    OBVIOUS
  <1>2. /\ msgFromCC' \in Seq(Frame) /\ Len(msgFromCC') <= QueueCap /\ Once(msgFromCC')
        /\ \A x : In(msgFromCC', x) => In(msgFromCC, x)
        /\ \/ main' = "dormant" /\ wake' = wake
           \/ /\ main' = "reconnect" /\ wake' \in Req
              /\ In(msgFromCC, wake') /\ ~In(msgFromCC', wake')
    <2>1. msgFromCC \in Seq(Frame) /\ Once(msgFromCC) /\ Len(msgFromCC) \in Nat /\ Len(msgFromCC) <= QueueCap
      BY DEF ClientTypes, Queues
    <2>2. CASE msgFromCC = <<Commit>>
      <3>1. msgFromCC' = <<>> /\ main' = "dormant" /\ wake' = wake
        BY <2>2
      <3>2. <<>> \in Seq(Frame) /\ Len(<<>>) = 0 /\ 0 <= QueueCap
        OBVIOUS
      <3> HIDE DEF negotiateDormant
      <3> QED
        BY <3>1, <3>2, EmptyQueue
    <2>3. CASE msgFromCC # <<Commit>>
      <3> DEFINE rest == IF Head(msgFromCC) = Commit THEN Tail(msgFromCC) ELSE msgFromCC
      <3>1. /\ Head(msgFromCC) \in Frame /\ Tail(msgFromCC) \in Seq(Frame) /\ Once(Tail(msgFromCC))
            /\ Len(Tail(msgFromCC)) <= Len(msgFromCC) /\ Len(Tail(msgFromCC)) \in Nat
            /\ \A y : In(Tail(msgFromCC), y) <=> In(msgFromCC, y) /\ y # Head(msgFromCC)
        BY <1>1, <2>1, TailQueue
      <3>2. msgFromCC' = Tail(rest) /\ wake' = Head(rest) /\ main' = "reconnect"
        BY <2>3
      <3>3. Head(msgFromCC) = Commit => Tail(msgFromCC) # <<>>
        <4> HIDE DEF negotiateDormant
        <4>1. Tail(msgFromCC) = <<>> => Len(msgFromCC) = 1
          <5> SUFFICES ASSUME Tail(msgFromCC) = <<>> PROVE Len(msgFromCC) = 1
            OBVIOUS
          <5>1. Len(Tail(msgFromCC)) = Len(msgFromCC) - 1
            BY <1>1, <2>1
          <5>2. Len(Tail(msgFromCC)) = 0
            <6>1. Len(<<>>) = 0
              OBVIOUS
            <6> QED
              BY <6>1, Zenon
          <5> QED
            BY <2>1, <5>1, <5>2
        <4>2. Len(msgFromCC) = 1 => msgFromCC = <<Head(msgFromCC)>>
          BY <2>1
        <4> QED
          BY <2>3, <4>1, <4>2
      <3>4. /\ rest \in Seq(Frame) /\ Once(rest) /\ Len(rest) \in Nat /\ Len(rest) <= QueueCap /\ rest # <<>>
            /\ \A y : In(rest, y) => In(msgFromCC, y)
            /\ (rest = msgFromCC /\ Head(msgFromCC) # Commit) \/ ~In(rest, Commit)
        <4> HIDE DEF negotiateDormant
        <4>1. CASE Head(msgFromCC) = Commit
          BY <2>1, <3>1, <3>3, <4>1
        <4>2. CASE Head(msgFromCC) # Commit
          BY <1>1, <2>1, <4>2
        <4> QED
          BY <4>1, <4>2
      <3> HIDE DEF rest, negotiateDormant
      <3>5. /\ Head(rest) \in Frame /\ In(rest, Head(rest)) /\ Tail(rest) \in Seq(Frame)
            /\ Len(Tail(rest)) <= Len(rest) /\ Len(Tail(rest)) \in Nat /\ Once(Tail(rest))
            /\ \A y : In(Tail(rest), y) <=> In(rest, y) /\ y # Head(rest)
        BY <3>4, TailQueue
      <3>6. wake' \in Req
        BY <3>2, <3>4, <3>5
      <3>7. Len(msgFromCC') <= QueueCap
        BY <3>2, <3>4, <3>5
      <3> QED
        BY <3>2, <3>4, <3>5, <3>6, <3>7
    <2> QED
      BY <2>2, <2>3
  <1> HIDE DEF negotiateDormant, Goto, Demand
  <1>3. ClientTypes'
    BY <1>1, <1>2 DEF ClientTypes, Parked, Ended, Reconnecting
  <1>4. Arriving' /\ Written' /\ History'
    BY <1>1, <1>2 DEF Arriving, Written, History, InOutput
  <1>5. Processes'
    BY <1>1, <1>2 DEF ClientTypes, Processes, Ended, Reconnecting, Parked
  <1>6. Queues'
    BY <1>1, <1>2 DEF ClientTypes, Queues, Ended, Reconnecting, Parked
  <1>7. Handshake'
    BY <1>1, <1>2 DEF ClientTypes, Handshake, OnIngress, InQueue, Ended, Reconnecting, Parked
  <1>8. Accepted'
    BY <1>1, <1>2 DEF ClientTypes, Accepted, Unsent, InQueue, WithProxy, Ended, Reconnecting,
                      Parked
  <1>9. Fenced'
    BY <1>1, <1>2 DEF ClientTypes, Fenced, InQueue, Processes, Ended, Reconnecting, Parked
  <1> QED
    BY <1>3, <1>4, <1>5, <1>6, <1>7, <1>8, <1>9

\* The host closes stdin while the client is away.
LEMMA EndingAway == ASSUME ClientInv, EOFWhileAway PROVE ClientInv'
  <1> USE ClientAssumption DEF ClientInv, EOFWhileAway, Goto, Deferred, Requests, queueVars,
                               fenceVars, idleVars, connVars, Frame, Commit
  <1>1. /\ main \in {"suspended", "negotiate", "attempt", "retry"} /\ main' = "exit"
        /\ UNCHANGED <<msgFromCC, msgFromIPC, inflight, held, sequence, pending, wakeup, cached, initialized>>
        /\ UNCHANGED <<quiet, suspending, offer, ing, conn, connSequence, reader, writer, then>>
        /\ UNCHANGED <<wake, budget, attempt, degraded, host, sent, admittedAt>>
    OBVIOUS
  <1>2. /\ answers' \in [Req -> Seq(Kinds)]
        /\ \A r \in Req : \/ answers'[r] = answers[r]
                          \/ /\ WithProxy(r) /\ answers[r] = <<>>
                             /\ \E k \in {"held", "lost"} : answers'[r] = <<k>>
    <2>1. Deferred \subseteq {wake} /\ main \notin Ended /\ Answer(Deferred, DeferredAnswer)
      BY <1>1 DEF Ended
    <2>2. DeferredAnswer \in {"held", "lost"} /\ {"held", "lost"} \subseteq Kinds
      BY DEF DeferredAnswer, Kinds
    <2> HIDE DEF EOFWhileAway, Deferred
    <2> QED
      BY <2>1, <2>2, WakeAnswered DEF WithProxy
  <1> HIDE DEF EOFWhileAway, Goto, Deferred, Requests
  <1>3. ClientTypes'
    BY <1>1, <1>2 DEF ClientTypes, Parked, Ended, Reconnecting
  <1>4. Queues'
    BY <1>1, <1>2 DEF Queues
  <1>5. Processes'
    BY <1>1, <1>2 DEF ClientTypes, Processes, Ended, Reconnecting, Parked
  <1>6. Handshake'
    BY <1>1, <1>2 DEF ClientTypes, Handshake, OnIngress, InQueue, Ended, Reconnecting, Parked
  <1>7. Arriving'
    <2>1. \A q \in Req : admittedAt[q] = NoFrame => answers'[q] = answers[q]
      BY <1>1, <1>2 DEF Accepted, Unsent, Written, History
    <2> QED
      BY <1>1, <1>2, <2>1, ArrivingKept
  <1>8. Accepted'
    BY <1>1, <1>2 DEF ClientTypes, Accepted, Unsent, InQueue, WithProxy, Written, InOutput, Ended,
                      Reconnecting, Parked
  <1>9. Written'
    BY <1>1, <1>2 DEF ClientTypes, Written, InOutput, Accepted, Unsent, InQueue, WithProxy, Ended,
                      Reconnecting, Parked
  <1>10. History'
    <2>1. \A q \in Req : \/ answers'[q] = answers[q]
                         \/ \E k \in Kinds : answers'[q] = <<k>> /\ (k \in Unwritten => sent[q] = {})
      BY <1>1, <1>2 DEF Accepted, Unsent, Kinds, Unwritten
    <2> QED
      BY <1>1, <1>2, <2>1, HistoryKept
  <1>11. Fenced'
    BY <1>1, <1>2 DEF ClientTypes, Fenced, InQueue, Ended, Reconnecting, Parked
  <1> QED
    BY <1>3, <1>4, <1>5, <1>6, <1>7, <1>8, <1>9, <1>10, <1>11

\* Reconnecting starts with the answers for what is lost.
LEMMA Starting == ASSUME ClientInv, StartReconnect PROVE ClientInv'
  <1> USE ClientAssumption DEF ClientInv, StartReconnect, drainOrphanedInflight, Requests,
                               fenceVars, idleVars, connVars, Frame, Commit
  <1>1. /\ main = "reconnect" /\ main' = "attempt" /\ attempt' = "running" /\ degraded' = FALSE
        /\ budget' \in 0..MaxRefreshAttempts /\ inflight' = {}
        /\ wake' \in {wake, NoFrame} /\ (held => wake' = NoFrame)
        /\ UNCHANGED <<msgFromCC, msgFromIPC, held, sequence, pending, wakeup, cached, initialized>>
        /\ UNCHANGED <<quiet, suspending, offer, ing, conn, connSequence, reader, writer, then>>
        /\ UNCHANGED <<host, sent, admittedAt>>
    OBVIOUS
  <1>2. /\ answers' \in [Req -> Seq(Kinds)]
        /\ \A r \in Req : \/ answers'[r] = answers[r]
                          \/ r \in inflight /\ answers[r] = <<>> /\ answers'[r] = <<"lost">>
                          \/ held /\ WithProxy(r) /\ answers[r] = <<>> /\ answers'[r] = <<"held">>
    <2>1. answers \in [Req -> Seq(Kinds)]
      BY DEF ClientTypes
    <2>2. \A a \in Seq(Kinds) : (a \o <<>>) \o <<>> = a
      OBVIOUS
    <2>3. \A k \in Kinds : (<<>> \o <<k>>) \o <<>> = <<k>> /\ (<<>> \o <<>>) \o <<k>> = <<k>> /\ <<k>> \in Seq(Kinds)
      OBVIOUS
    <2>4. answers' = [r \in Req |->
            IF host = "dead" THEN answers[r]
            ELSE answers[r] \o (IF r \in inflight THEN <<"lost">> ELSE <<>>)
                            \o (IF r \in (IF held THEN Requests({wake}) ELSE {}) THEN <<"held">> ELSE <<>>)]
      OBVIOUS
    <2>5. \A r \in Req : r \in (IF held THEN Requests({wake}) ELSE {}) => held /\ WithProxy(r)
      BY <1>1 DEF WithProxy, Ended
    <2>6. \A r \in Req : /\ WithProxy(r) => answers[r] = <<>> /\ r \notin inflight
                         /\ r \in inflight => answers[r] = <<>>
      BY DEF Accepted, Unsent, Written
    <2>7. \A r \in Req : \/ answers'[r] = answers[r]
                         \/ r \in inflight /\ answers[r] = <<>> /\ answers'[r] = <<"lost">>
                         \/ held /\ WithProxy(r) /\ answers[r] = <<>> /\ answers'[r] = <<"held">>
      <3> SUFFICES ASSUME NEW r \in Req, host # "dead"
                   PROVE  \/ answers'[r] = answers[r]
                          \/ r \in inflight /\ answers[r] = <<>> /\ answers'[r] = <<"lost">>
                          \/ held /\ WithProxy(r) /\ answers[r] = <<>> /\ answers'[r] = <<"held">>
        BY <2>4
      <3> HIDE DEF StartReconnect
      <3>1. CASE r \in inflight
        <4>1. answers'[r] = (<<>> \o <<"lost">>) \o <<>>
          BY <2>4, <2>5, <2>6, <3>1
        <4> QED
          BY <2>3, <2>6, <3>1, <4>1 DEF Kinds
      <3>2. CASE r \notin inflight /\ r \in (IF held THEN Requests({wake}) ELSE {})
        <4>1. answers'[r] = (<<>> \o <<>>) \o <<"held">>
          BY <2>4, <2>5, <2>6, <3>2
        <4> QED
          BY <2>3, <2>5, <2>6, <3>2, <4>1 DEF Kinds
      <3>3. CASE r \notin inflight /\ r \notin (IF held THEN Requests({wake}) ELSE {})
        <4>1. answers'[r] = (answers[r] \o <<>>) \o <<>>
          BY <2>4, <3>3
        <4> QED
          BY <2>1, <2>2, <4>1
      <3> QED
        BY <3>1, <3>2, <3>3
    <2> HIDE DEF StartReconnect
    <2>8. \A r \in Req : answers'[r] \in Seq(Kinds)
      BY <2>1, <2>3, <2>7 DEF Kinds
    <2> QED
      BY <2>4, <2>7, <2>8
  <1> HIDE DEF StartReconnect, drainOrphanedInflight, Requests
  <1>3. ClientTypes'
    <2>1. wake' \in Req \cup {NoFrame} /\ inflight' \subseteq Req /\ degraded' \in BOOLEAN
      BY <1>1 DEF ClientTypes
    <2>2. attempt' \in {"none", "running"} /\ main' \in Parked /\ answers' \in [Req -> Seq(Kinds)]
      BY <1>1, <1>2 DEF Parked, Reconnecting
    <2> QED
      BY <1>1, <2>1, <2>2 DEF ClientTypes
  <1>4. Queues'
    BY <1>1, <1>2 DEF Queues
  <1>5. Processes'
    BY <1>1, <1>2 DEF ClientTypes, Processes, Ended, Reconnecting, Parked
  <1>6. Handshake'
    BY <1>1, <1>2 DEF ClientTypes, Handshake, OnIngress, InQueue, Ended, Reconnecting, Parked
  <1>7. Arriving'
    <2>1. \A q \in Req : admittedAt[q] = NoFrame => answers'[q] = answers[q]
      BY <1>1, <1>2 DEF Accepted, Unsent, Written, History
    <2> QED
      BY <1>1, <1>2, <2>1, ArrivingKept
  <1>8. Accepted'
    BY SMTT(30), <1>1, <1>2 DEF ClientTypes, Accepted, Unsent, InQueue, WithProxy, Written, InOutput, Ended,
                      Reconnecting, Parked
  <1>9. Written'
    BY <1>1, <1>2 DEF ClientTypes, Written, InOutput, Accepted, Unsent, InQueue, WithProxy, Ended,
                      Reconnecting, Parked
  <1>10. History'
    <2>1. \A q \in Req : \/ answers'[q] = answers[q]
                         \/ \E k \in Kinds : answers'[q] = <<k>> /\ (k \in Unwritten => sent[q] = {})
      BY <1>1, <1>2 DEF Accepted, Unsent, Kinds, Unwritten
    <2> QED
      BY <1>1, <1>2, <2>1, HistoryKept
  <1>11. Fenced'
    BY <1>1, <1>2 DEF ClientTypes, Fenced, InQueue, Ended, Reconnecting, Parked
  <1> QED
    BY <1>3, <1>4, <1>5, <1>6, <1>7, <1>8, <1>9, <1>10, <1>11

\* An attempt to reconnect ends.
LEMMA Attempting ==
  ASSUME ClientInv, NEW result \in {"fence", "ok", "terminal", "fail", "refused"}, attemptReconnect(result)
  PROVE  ClientInv'
  <1> USE ClientAssumption DEF ClientInv, attemptReconnect, enterMaintenance, Queued, Requests,
                               idleVars, connVars, Frame, Commit
  <1>1. /\ main = "attempt" /\ attempt = "running" /\ attempt' = result
        /\ UNCHANGED <<msgFromIPC, inflight, initialized, quiet, suspending, offer, ing, conn, connSequence>>
        /\ UNCHANGED <<reader, writer, main, wake, then, budget, degraded, host, sent, admittedAt>>
    BY DEF Processes
  <1>2. pending' \in BOOLEAN /\ wakeup' \in BOOLEAN
    BY DEF ClientTypes
  <1>3. \/ UNCHANGED <<msgFromCC, held, sequence, cached, answers>>
        \/ /\ msgFromCC' = <<>> /\ held' = TRUE /\ cached' = FALSE /\ sequence' \in 0..MaxFences
           /\ result = "fence"
           /\ msgFromCC' \in Seq(Frame) /\ Len(msgFromCC') <= QueueCap /\ Once(msgFromCC')
           /\ \A x : ~In(msgFromCC', x)
           /\ answers' \in [Req -> Seq(Kinds)]
           /\ \A q \in Req : \/ answers'[q] = answers[q]
                             \/ InQueue(q) /\ answers[q] = <<>> /\ answers'[q] = <<"held">>
    <2>1. CASE result = "fence"
      BY <2>1, FenceEntered
    <2>2. CASE result # "fence"
      BY <2>2
    <2> QED
      BY <2>1, <2>2
  <1> HIDE DEF attemptReconnect, enterMaintenance, Queued, Requests
  <1>4. ClientTypes'
    <2> HIDE DEF Frame, Commit
    <2>1. /\ msgFromCC' \in Seq(Frame) /\ Len(msgFromCC') <= QueueCap /\ held' \in BOOLEAN
          /\ sequence' \in 0..MaxFences /\ cached' \in BOOLEAN /\ answers' \in [Req -> Seq(Kinds)]
      BY <1>3 DEF ClientTypes
    <2> QED
      BY <1>1, <1>2, <2>1 DEF ClientTypes
  <1>5. Processes'
    BY <1>1, <1>2, <1>3 DEF ClientTypes, Processes, Ended, Reconnecting, Parked
  <1>6. Queues'
    BY <1>1, <1>2, <1>3 DEF ClientTypes, Queues, Ended, Reconnecting, Parked
  <1>7. Handshake'
    BY <1>1, <1>2, <1>3 DEF ClientTypes, Handshake, OnIngress, InQueue, Ended, Reconnecting,
                            Parked
  <1>8. Arriving'
    <2>1. \A q \in Req : admittedAt[q] = NoFrame => answers'[q] = answers[q]
      BY <1>1, <1>2, <1>3 DEF Accepted, Unsent
    <2> QED
      BY <1>1, <1>2, <1>3, <2>1, ArrivingKept
  <1>9. Accepted'
    BY SMTT(30), <1>1, <1>2, <1>3 DEF ClientTypes, Accepted, Unsent, InQueue, WithProxy, Written, InOutput,
                            Ended, Reconnecting, Parked
  <1>10. Written'
    BY <1>1, <1>2, <1>3 DEF ClientTypes, Written, InOutput, Accepted, Unsent, InQueue, WithProxy,
                            Ended, Reconnecting, Parked
  <1>11. History'
    <2>1. \A q \in Req : \/ answers'[q] = answers[q]
                         \/ \E k \in Kinds : answers'[q] = <<k>> /\ (k \in Unwritten => sent[q] = {})
      BY <1>1, <1>2, <1>3 DEF Accepted, Unsent, Kinds, Unwritten
    <2> QED
      BY <1>1, <1>2, <1>3, <2>1, HistoryKept
  <1>12. Fenced'
    BY <1>1, <1>2, <1>3 DEF ClientTypes, Fenced, InQueue, Processes, Ended, Reconnecting, Parked
  <1> QED
    BY <1>4, <1>5, <1>6, <1>7, <1>8, <1>9, <1>10, <1>11, <1>12

\* The proxy loop hears how the attempt ended.
LEMMA Hearing == ASSUME ClientInv, AttemptResult PROVE ClientInv'
  <1> USE ClientAssumption DEF ClientInv, AttemptResult, Spent, Requests, Deferred, queueVars,
                               fenceVars, idleVars, connVars, Frame, Commit
  <1>1. /\ main = "attempt" /\ main' \in {"finish", "exit", "attempt", "retry"}
        /\ attempt' = "none" \/ (attempt' = "running" /\ main' = "attempt")
        /\ UNCHANGED <<msgFromCC, msgFromIPC, inflight, held, sequence, pending, wakeup, cached, initialized>>
        /\ UNCHANGED <<quiet, suspending, offer, ing, conn, connSequence, reader, writer, then>>
        /\ UNCHANGED <<degraded, host, sent, admittedAt>>
    BY DEF ClientTypes
  <1>2. budget' \in 0..MaxRefreshAttempts
    BY DEF ClientTypes
  <1>3. /\ answers' \in [Req -> Seq(Kinds)]
        /\ \/ wake' = wake /\ attempt # "fence" /\ UNCHANGED answers
           \/ /\ wake' = NoFrame
              /\ \A r \in Req : \/ answers'[r] = answers[r]
                                \/ /\ WithProxy(r) /\ answers[r] = <<>>
                                   /\ \E k \in {"held", "lost"} : answers'[r] = <<k>>
    <2>1. main \notin Ended /\ Requests({wake}) \subseteq {wake} /\ Deferred \subseteq {wake}
      BY <1>1 DEF Ended
    <2>2. CASE attempt = "fence"
      <3>1. wake' = NoFrame /\ Answer(Requests({wake}), "held")
        BY <2>2
      <3> HIDE DEF AttemptResult
      <3> QED
        BY <2>1, <3>1, WakeAnswered DEF WithProxy, Kinds
    <2>3. CASE attempt = "refused"
      <3>1. wake' = NoFrame /\ Answer(Deferred, DeferredAnswer)
        BY <2>3
      <3>2. DeferredAnswer \in {"held", "lost"} /\ {"held", "lost"} \subseteq Kinds
        BY DEF DeferredAnswer, Kinds
      <3> HIDE DEF AttemptResult, Deferred
      <3> QED
        BY <2>1, <3>1, <3>2, WakeAnswered DEF WithProxy
    <2>4. CASE attempt \notin {"fence", "refused"}
      BY <2>4 DEF ClientTypes
    <2> QED
      BY <2>2, <2>3, <2>4
  <1> HIDE DEF AttemptResult, Spent, Requests, Deferred
  <1>4. ClientTypes'
    BY <1>1, <1>2, <1>3 DEF ClientTypes, Parked, Ended, Reconnecting
  <1>5. Queues'
    BY <1>1, <1>2, <1>3 DEF Queues
  <1>6. Processes'
    BY <1>1, <1>2, <1>3 DEF ClientTypes, Processes, Ended, Reconnecting, Parked
  <1>7. Handshake'
    BY <1>1, <1>2, <1>3 DEF ClientTypes, Handshake, OnIngress, InQueue, Ended, Reconnecting,
                            Parked
  <1>8. Arriving'
    <2>1. \A q \in Req : admittedAt[q] = NoFrame => answers'[q] = answers[q]
      BY <1>1, <1>2, <1>3 DEF Accepted, Unsent, Written, History
    <2> QED
      BY <1>1, <1>2, <1>3, <2>1, ArrivingKept
  <1>9. Accepted'
    BY <1>1, <1>2, <1>3 DEF ClientTypes, Accepted, Unsent, InQueue, WithProxy, Written, InOutput,
                            Ended, Reconnecting, Parked
  <1>10. Written'
    BY <1>1, <1>2, <1>3 DEF ClientTypes, Written, InOutput, Accepted, Unsent, InQueue, WithProxy,
                            Ended, Reconnecting, Parked
  <1>11. History'
    <2>1. \A q \in Req : \/ answers'[q] = answers[q]
                         \/ \E k \in Kinds : answers'[q] = <<k>> /\ (k \in Unwritten => sent[q] = {})
      BY <1>1, <1>2, <1>3 DEF Accepted, Unsent, Kinds, Unwritten
    <2> QED
      BY <1>1, <1>2, <1>3, <2>1, HistoryKept
  <1>12. Fenced'
    BY <1>1, <1>2, <1>3 DEF ClientTypes, Fenced, InQueue, Ended, Reconnecting, Parked
  <1> QED
    BY <1>4, <1>5, <1>6, <1>7, <1>8, <1>9, <1>10, <1>11, <1>12

\* Another attempt starts.
LEMMA Retrying == ASSUME ClientInv, RetryNow PROVE ClientInv'
  <1> USE ClientAssumption DEF ClientInv, RetryNow, queueVars, fenceVars, idleVars, connVars,
                               ghostVars, Frame, Commit
  <1>1. ClientTypes'
    BY DEF ClientTypes, Ingress, Ended, Reconnecting, Parked
  <1>2. Queues' /\ Arriving' /\ Written' /\ History'
    BY DEF Queues, Arriving, Written, History, InOutput
  <1>3. Processes'
    BY DEF ClientTypes, Processes, Ended, Reconnecting, Parked
  <1>4. Handshake'
    BY DEF ClientTypes, Handshake, OnIngress, InQueue, Ended, Reconnecting, Parked
  <1>5. Accepted'
    BY DEF ClientTypes, Accepted, Unsent, InQueue, WithProxy, Ended, Reconnecting, Parked
  <1>6. Fenced'
    BY DEF ClientTypes, Fenced, InQueue, Ended, Reconnecting, Parked
  <1> QED
    BY <1>1, <1>2, <1>3, <1>4, <1>5, <1>6

\* What is buffered is answered while the client reconnects.
LEMMA Degrading == ASSUME ClientInv, Degrade PROVE ClientInv'
  <1> USE ClientAssumption DEF ClientInv, Degrade, failBufferedRequestsDuringReconnect, Queued,
                               Requests, fenceVars, idleVars, connVars, Frame, Commit
  <1>1. /\ main \in {"attempt", "retry"} /\ degraded' = TRUE
        /\ UNCHANGED <<msgFromIPC, held, sequence, pending, wakeup, cached, initialized, quiet, suspending>>
        /\ UNCHANGED <<offer, ing, conn, connSequence, reader, writer, main, wake, then, budget, attempt>>
        /\ UNCHANGED <<host, sent, admittedAt>>
    OBVIOUS
  <1>2. \/ UNCHANGED <<msgFromCC, inflight, answers>>
        \/ /\ msgFromCC' = <<>> /\ inflight' \subseteq inflight
           /\ msgFromCC' \in Seq(Frame) /\ Len(msgFromCC') <= QueueCap /\ Once(msgFromCC')
           /\ \A x : ~In(msgFromCC', x)
           /\ answers' \in [Req -> Seq(Kinds)]
           /\ \A q \in Req : \/ answers'[q] = answers[q]
                             \/ /\ InQueue(q) /\ answers[q] = <<>>
                                /\ \E k \in {"held", "notsent"} : answers'[q] = <<k>>
    <2>1. CASE pending
      BY <2>1
    <2>2. CASE ~pending
      <3>1. /\ msgFromCC' = <<>> /\ inflight' \subseteq inflight
            /\ \E k \in {"held", "notsent"} : Answer(Queued, k)
        BY <2>2
      <3>2. \A q \in Req : (q \in Queued <=> InQueue(q)) /\ (q \in Queued => answers[q] = <<>>)
        BY QueuedRequests DEF Accepted, Unsent
      <3>3. <<>> \in Seq(Frame) /\ Len(<<>>) = 0 /\ 0 <= QueueCap
        OBVIOUS
      <3> HIDE DEF Degrade, Queued, Requests
      <3>4. /\ answers' \in [Req -> Seq(Kinds)]
            /\ \A q \in Req : \/ answers'[q] = answers[q]
                              \/ /\ InQueue(q) /\ answers[q] = <<>>
                                 /\ \E k \in {"held", "notsent"} : answers'[q] = <<k>>
        <4>1. PICK k \in {"held", "notsent"} : Answer(Queued, k)
          BY <3>1
        <4> QED
          BY <3>2, <4>1, AnswerOnce DEF Kinds
      <3> QED
        BY <3>1, <3>3, <3>4, EmptyQueue
    <2> QED
      BY <2>1, <2>2
  <1> HIDE DEF Degrade, failBufferedRequestsDuringReconnect, Queued, Requests
  <1>3. ClientTypes'
    BY SMTT(30), <1>1, <1>2 DEF ClientTypes, Parked, Ended, Reconnecting
  <1>4. Processes'
    BY <1>1, <1>2 DEF ClientTypes, Processes, Ended, Reconnecting, Parked
  <1>5. Queues'
    BY <1>1, <1>2 DEF ClientTypes, Queues, Ended, Reconnecting, Parked
  <1>6. Handshake'
    BY <1>1, <1>2 DEF ClientTypes, Handshake, OnIngress, InQueue, Ended, Reconnecting, Parked
  <1>7. Arriving'
    <2>1. \A q \in Req : admittedAt[q] = NoFrame => answers'[q] = answers[q]
      BY <1>1, <1>2 DEF Accepted, Unsent
    <2> QED
      BY <1>1, <1>2, <2>1, ArrivingKept
  <1>8. Accepted'
    <2>1. CASE UNCHANGED <<msgFromCC, inflight, answers>>
      BY <1>1, <2>1 DEF Accepted, Unsent, InQueue, WithProxy
    <2>2. CASE /\ \A x : ~In(msgFromCC', x)
               /\ \A q \in Req : answers'[q] = answers[q] \/ InQueue(q)
      BY <1>1, <2>2 DEF Accepted, Unsent, InQueue, WithProxy
    <2> QED
      BY <1>2, <2>1, <2>2
  <1>9. Written'
    BY <1>1, <1>2 DEF ClientTypes, Written, InOutput, Accepted, Unsent, InQueue, WithProxy, Ended,
                      Reconnecting, Parked
  <1>10. History'
    <2>1. \A q \in Req : \/ answers'[q] = answers[q]
                         \/ \E k \in Kinds : answers'[q] = <<k>> /\ (k \in Unwritten => sent[q] = {})
      BY <1>1, <1>2 DEF Accepted, Unsent, Kinds, Unwritten
    <2> QED
      BY <1>1, <1>2, <2>1, HistoryKept
  <1>11. Fenced'
    BY <1>1, <1>2 DEF ClientTypes, Fenced, InQueue, Ended, Reconnecting, Parked
  <1> QED
    BY <1>3, <1>4, <1>5, <1>6, <1>7, <1>8, <1>9, <1>10, <1>11

\* A replay of initialize is no frame of the host.
LEMMA ReplayWritten ==
  ASSUME ClientInv, main = "finish", writeReplay
  PROVE  /\ sent' \in [Req \cup {Replay} -> SUBSET (1..MaxConn)]
         /\ \A r \in Req : sent'[r] = sent[r]
         /\ sent'[Replay] \subseteq sent[Replay] \cup {conn.n + 1}
         /\ sent'[Replay] # sent[Replay] => cached
  <1>1. /\ conn.n \in 1..MaxConn /\ conn.n < MaxConn /\ Replay \notin Req
        /\ sent \in [Req \cup {Replay} -> SUBSET (1..MaxConn)]
    BY ClientAssumption DEF ClientInv, ClientTypes, Connection, Processes, Parked, Reconnecting, Replay
  <1>2. conn.n + 1 \in 1..MaxConn
    BY <1>1, ClientAssumption
  <1> QED
    BY <1>1, <1>2 DEF writeReplay

\* The new connection fails.
LEMMA NotFinishing == ASSUME ClientInv, FinishFails PROVE ClientInv'
  <1> USE ClientAssumption DEF ClientInv, FinishFails, SettlePending, Spent, queueVars, idleVars,
                               connVars, Frame, Commit
  <1>1. /\ main = "finish" /\ main' = "retry" /\ budget' \in 0..MaxRefreshAttempts
        /\ UNCHANGED <<msgFromCC, msgFromIPC, inflight, held, sequence, cached, initialized, quiet, suspending>>
        /\ UNCHANGED <<offer, conn, connSequence, reader, writer, wake, then, attempt, degraded, host>>
        /\ UNCHANGED <<answers, admittedAt>> /\ (UNCHANGED sent \/ writeReplay)
    BY DEF ClientTypes
  <1>2. /\ pending' = FALSE /\ wakeup' = FALSE
        /\ ing' \in [Ingress -> {Idle} \cup Accepting]
        /\ \A q \in Ingress : /\ ing'[q] = Idle <=> ing[q] = Idle
                              /\ ing[q] # Idle => ing'[q].frame = ing[q].frame
    BY AdmissionSettled
  <1> HIDE DEF FinishFails, SettlePending, Spent
  <1>0. /\ sent' \in [Req \cup {Replay} -> SUBSET (1..MaxConn)]
        /\ \A r \in Req : sent'[r] = sent[r]
    BY <1>1, ReplayWritten DEF ClientTypes
  <1>3. ClientTypes'
    <2>1. /\ pending' \in BOOLEAN /\ wakeup' \in BOOLEAN /\ ing' \in [Ingress -> {Idle} \cup Accepting]
          /\ sent' \in [Req \cup {Replay} -> SUBSET (1..MaxConn)]
      BY <1>0, <1>2
    <2> QED
      BY <1>1, <2>1 DEF ClientTypes, Parked, Reconnecting
  <1>4. Queues' /\ Written' /\ History'
    BY <1>0, <1>1, <1>2 DEF Queues, Written, History, InOutput
  <1>5. Processes'
    BY <1>1, <1>2 DEF ClientTypes, Processes, Ended, Reconnecting, Parked, Ingress
  <1>6. Handshake'
    BY <1>1, <1>2 DEF ClientTypes, Handshake, OnIngress, InQueue, Ended, Reconnecting, Parked,
                      Ingress
  <1>7. Arriving'
    BY <1>1, <1>2 DEF ClientTypes, Arriving, Ended, Reconnecting, Parked, Ingress
  <1>8. Accepted'
    BY <1>0, <1>1, <1>2 DEF ClientTypes, Accepted, Unsent, InQueue, WithProxy, Ended, Reconnecting,
                      Parked, Ingress
  <1>9. Fenced'
    BY <1>1, <1>2 DEF ClientTypes, Fenced, InQueue, Ended, Reconnecting, Parked, Ingress
  <1> QED
    BY <1>3, <1>4, <1>5, <1>6, <1>7, <1>8, <1>9

\* The new connection is used.
LEMMA Finishing == ASSUME ClientInv, FinishReconnect PROVE ClientInv'
  <1> USE ClientAssumption DEF ClientInv, FinishReconnect, SettlePending, leaveMaintenance,
                               Queued, Requests, Deferred, DeferredAnswer, replayInit, Frame, Commit
  <1>1. /\ main = "finish" /\ held' = FALSE /\ suspending' = FALSE /\ initialized' \in BOOLEAN
        /\ inflight' \subseteq inflight
        /\ \/ then = "lost" /\ main' = "proxy" /\ wake' = NoFrame /\ reader' = "run" /\ writer' = "run"
           \/ then = "demand" /\ main' = "forward" /\ UNCHANGED <<wake, reader, writer>>
        /\ connSequence' \in 0..MaxFences
        /\ UNCHANGED <<msgFromIPC, sequence, cached, quiet, offer, then, budget, attempt, degraded, host>>
        /\ UNCHANGED admittedAt /\ writeReplay
    BY DEF ClientTypes
  <1>2. /\ pending' = FALSE /\ wakeup' = FALSE
        /\ ing' \in [Ingress -> {Idle} \cup Accepting]
        /\ \A q \in Ingress : /\ ing'[q] = Idle <=> ing[q] = Idle
                              /\ ing[q] # Idle => ing'[q].frame = ing[q].frame
    BY AdmissionSettled
  <1>3. conn' \in Connection /\ conn'.wire = {} /\ conn'.state = "open" /\ writer = "done" 
    <2>1. conn.n \in 1..MaxConn /\ conn.n < MaxConn /\ writer = "done"
      BY <1>1 DEF ClientTypes, Connection, Processes, Parked, Reconnecting
    <2>2. conn' = [n |-> conn.n + 1, state |-> "open", wire |-> {}]
      OBVIOUS
    <2> HIDE DEF FinishReconnect
    <2> QED
      BY <2>1, <2>2 DEF Connection
  <1>4. /\ msgFromCC' = msgFromCC /\ answers' \in [Req -> Seq(Kinds)]
        /\ \A r \in Req : \/ answers'[r] = answers[r]
                          \/ /\ then = "lost" /\ WithProxy(r) /\ answers[r] = <<>>
                             /\ \E k \in {"held", "lost"} : answers'[r] = <<k>>
    <2>1. held => Queued = {} /\ msgFromCC = <<>>
      BY QueuedRequests, EmptyQueue DEF Fenced, InQueue
    <2>2. Deferred \subseteq {wake} /\ main \notin Ended /\ (then # "lost" => Deferred = {})
      BY <1>1 DEF Ended
    <2>3. msgFromCC' = msgFromCC /\ \E k \in {"held", "lost"} : Answer(Deferred, k)
      <3>1. CASE held
        BY <2>1, <3>1
      <3>2. CASE ~held
        BY <3>2
      <3> QED
        BY <3>1, <3>2
    <2> HIDE DEF FinishReconnect, Deferred
    <2> QED
      BY <2>2, <2>3, WakeAnswered DEF WithProxy, Kinds
  <1> HIDE DEF FinishReconnect, SettlePending, leaveMaintenance, Queued, Requests, Deferred,
               replayInit
  <1>0. /\ sent' \in [Req \cup {Replay} -> SUBSET (1..MaxConn)]
        /\ \A r \in Req : sent'[r] = sent[r]
    BY <1>1, ReplayWritten
  <1>5. ClientTypes'
    <2>1. pending' \in BOOLEAN /\ wakeup' \in BOOLEAN /\ ing' \in [Ingress -> {Idle} \cup Accepting]
      BY <1>2
    <2>2. /\ reader' \in Req \cup {"run", "eof"} /\ writer' \in Frame \cup {"run", "done"}
          /\ wake' \in Req \cup {NoFrame} /\ main' \in {"proxy", "forward"}
      BY <1>1 DEF ClientTypes
    <2>3. /\ answers' \in [Req -> Seq(Kinds)] /\ msgFromCC' = msgFromCC
          /\ sent' \in [Req \cup {Replay} -> SUBSET (1..MaxConn)]
      BY <1>0, <1>4
    <2> QED
      BY ZenonT(40), <1>1, <1>3, <2>1, <2>2, <2>3 DEF ClientTypes
  <1>6. Processes'
    BY <1>1, <1>2, <1>3, <1>4 DEF ClientTypes, Processes, Ended, Reconnecting, Parked, Ingress
  <1>7. Queues'
    BY <1>1, <1>2, <1>3, <1>4 DEF ClientTypes, Queues, Ended, Reconnecting, Parked, Ingress
  <1>8. Handshake'
    BY <1>1, <1>2, <1>3, <1>4 DEF ClientTypes, Handshake, OnIngress, InQueue, Ended, Reconnecting,
                                  Parked, Ingress
  <1>9. Arriving'
    <2>1. \A q \in Req : admittedAt[q] = NoFrame => answers'[q] = answers[q]
      BY <1>4 DEF Accepted, Unsent
    <2> QED
      BY <1>1, <1>2, <2>1 DEF Arriving
  <1>10. Accepted'
    BY <1>0, <1>1, <1>2, <1>3, <1>4 DEF ClientTypes, Accepted, Unsent, InQueue, WithProxy, Written,
                                  InOutput, Ended, Reconnecting, Parked, Ingress
  <1>11. Written'
    BY ZenonT(40), <1>0, <1>1, <1>2, <1>3, <1>4 DEF ClientTypes, Written, InOutput, Accepted, Unsent, InQueue,
                                  WithProxy, Ended, Reconnecting, Parked, Ingress
  <1>12. History'
    <2>1. \A q \in Req : \/ answers'[q] = answers[q]
                         \/ \E k \in Kinds : answers'[q] = <<k>> /\ (k \in Unwritten => sent[q] = {})
      BY <1>1, <1>2, <1>3, <1>4 DEF Accepted, Unsent, Kinds, Unwritten
    <2> QED
      BY <1>0, <1>1, <2>1, HistoryKept
  <1>13. Fenced'
    BY <1>1, <1>2, <1>3, <1>4 DEF ClientTypes, Fenced, InQueue, Ended, Reconnecting, Parked,
                                  Ingress
  <1> QED
    BY <1>5, <1>6, <1>7, <1>8, <1>9, <1>10, <1>11, <1>12, <1>13

\* The wake demand is sent first.
LEMMA Delivering ==
  ASSUME ClientInv, NEW failed \in BOOLEAN, ForwardDemand(failed)
  PROVE  ClientInv'
  <1> USE ClientAssumption DEF ClientInv, ForwardDemand, forwardToIPC, fenceVars, idleVars, Frame,
                               Commit
  <1>1. /\ main = "forward" /\ reader \notin Req /\ main' \in {"exit", "proxy"}
        /\ wake' = NoFrame /\ reader' = "run" /\ writer' = "run" /\ connSequence' \in 0..MaxFences
        /\ UNCHANGED <<msgFromCC, msgFromIPC, held, sequence, pending, wakeup, cached, initialized, quiet>>
        /\ UNCHANGED <<suspending, offer, ing, then, budget, attempt, degraded, host, admittedAt>>
    BY DEF ClientTypes
  <1>2. \/ UNCHANGED <<inflight, conn, answers, sent>>
        \/ /\ UNCHANGED <<inflight, conn, sent>> /\ wake \in Req
           /\ answers' \in [Req -> Seq(Kinds)]
           /\ \A r \in Req : \/ answers'[r] = answers[r]
                             \/ r = wake /\ answers[r] = <<>> /\ answers'[r] = <<"held">>
        \/ /\ UNCHANGED answers /\ ~held /\ wake \in Req /\ inflight' = inflight \cup {wake}
           /\ sent' = [sent EXCEPT ![wake] = @ \cup {conn.n}]
           /\ conn' = IF conn.state = "open" THEN [conn EXCEPT !.wire = @ \cup {wake}] ELSE conn
    <2>1. wake # NoFrame => wake \in Req
      BY DEF ClientTypes
    <2>2. CASE wake = NoFrame
      BY <2>2
    <2>3. CASE wake # NoFrame /\ held
      <3>1. Answer({wake}, "held") /\ main \notin Ended /\ "held" \in Kinds /\ UNCHANGED <<inflight, conn, sent>>
        BY <1>1, <2>3 DEF Ended, Kinds
      <3> HIDE DEF ForwardDemand, forwardToIPC
      <3> QED
        BY <2>1, <2>3, <3>1, WakeAnswered
    <2>4. CASE wake # NoFrame /\ ~held
      BY <2>1, <2>4
    <2> QED
      BY <2>2, <2>3, <2>4
  <1>3. /\ wake \in Req => sent[wake] = {} /\ answers[wake] = <<>> /\ admittedAt[wake] # NoFrame
        /\ conn' \in Connection /\ conn'.n = conn.n /\ conn'.state = conn.state
        /\ conn'.wire \subseteq conn.wire \cup (inflight' \ inflight)
        /\ inflight \subseteq inflight' /\ inflight' \subseteq Req
    <2>1. wake \in Req => sent[wake] = {} /\ answers[wake] = <<>> /\ admittedAt[wake] # NoFrame /\ wake \notin inflight
      BY <1>1 DEF Accepted, Unsent, WithProxy, Ended, Written
    <2>2. CASE UNCHANGED <<inflight, conn>>
      BY <2>1, <2>2 DEF ClientTypes
    <2>3. CASE /\ wake \in Req /\ inflight' = inflight \cup {wake}
               /\ conn' = IF conn.state = "open" THEN [conn EXCEPT !.wire = @ \cup {wake}] ELSE conn
      BY <2>1, <2>3 DEF ClientTypes, Connection
    <2> QED
      BY <1>2, <2>2, <2>3
  <1>4. /\ sent' \in [Req \cup {Replay} -> SUBSET (1..MaxConn)]
        /\ \A r \in Req : sent'[r] = IF r = wake /\ r \in inflight' THEN {conn.n} ELSE sent[r]
        /\ conn.n \in 1..MaxConn /\ (wake \in inflight' => UNCHANGED answers)
    <2>1. conn.n \in 1..MaxConn /\ sent \in [Req \cup {Replay} -> SUBSET (1..MaxConn)]
      BY DEF ClientTypes, Connection
    <2>2. wake \in Req => wake \notin inflight
      BY <1>3 DEF Written
    <2>3. CASE UNCHANGED sent /\ UNCHANGED inflight
      BY <2>1, <2>2, <2>3 DEF ClientTypes
    <2>4. CASE /\ UNCHANGED answers /\ wake \in Req /\ inflight' = inflight \cup {wake}
               /\ sent' = [sent EXCEPT ![wake] = @ \cup {conn.n}]
      BY <1>3, <2>1, <2>4
    <2> QED
      BY <1>2, <2>3, <2>4
  <1> HIDE DEF ForwardDemand, forwardToIPC
  <1>5. ClientTypes'
    BY <1>1, <1>2, <1>3, <1>4 DEF ClientTypes, Parked, Ended, Reconnecting
  <1>6. Queues'
    BY <1>1, <1>2, <1>3, <1>4 DEF Queues
  <1>7. Processes'
    BY <1>1, <1>2, <1>3, <1>4 DEF ClientTypes, Processes, Ended, Reconnecting, Parked
  <1>8. Handshake'
    BY <1>1, <1>2, <1>3, <1>4 DEF ClientTypes, Handshake, OnIngress, InQueue, Ended, Reconnecting,
                                  Parked
  <1>9. Arriving'
    BY SMTT(30), <1>1, <1>2, <1>3, <1>4 DEF ClientTypes, Arriving, Accepted, Unsent, InQueue, WithProxy,
                                  Ended, Reconnecting, Parked
  <1>10. Accepted'
    BY <1>1, <1>2, <1>3, <1>4 DEF ClientTypes, Accepted, Unsent, InQueue, WithProxy, Written,
                                  InOutput, Ended, Reconnecting, Parked
  <1>11. Written'
    <2>1. \A r \in Req : (r \in inflight' => r \in inflight \/ r = wake) /\ (wake = r => ~InOutput(r))
      BY <1>2, <1>3 DEF Written
    <2>2. \A r \in Req : /\ (r \in inflight \/ InOutput(r)) => answers'[r] = answers[r] /\ sent'[r] = sent[r]
                         /\ r \in inflight' /\ r = wake => sent'[r] # {} /\ answers'[r] = <<>>
      BY <1>2, <1>3, <1>4 DEF Written
    <2>3. UNCHANGED msgFromIPC /\ reader' \notin Req
      BY <1>1
    <2> QED
      BY <2>1, <2>2, <2>3 DEF Written, InOutput
  <1>12. History'
    <2>1. CASE UNCHANGED sent
      <3>1. \A q \in Req : \/ answers'[q] = answers[q]
                           \/ \E k \in Kinds : answers'[q] = <<k>> /\ (k \in Unwritten => sent[q] = {})
        BY <1>2, <1>3 DEF Kinds
      <3> QED
        BY <1>1, <2>1, <3>1, HistoryKept
    <2>2. CASE UNCHANGED answers
      BY ZenonT(40), <1>1, <1>3, <1>4, <2>2, OneLine DEF History
    <2> QED
      BY <1>2, <2>1, <2>2
  <1>13. Fenced'
    BY <1>1, <1>2, <1>3, <1>4 DEF ClientTypes, Fenced, InQueue, Processes, Ended, Reconnecting,
                                  Parked
  <1> QED
    BY <1>5, <1>6, <1>7, <1>8, <1>9, <1>10, <1>11, <1>12, <1>13

\* The host closes stdin.
LEMMA ClosingStdin == ASSUME ClientInv, HostCloses PROVE ClientInv'
  <1> USE ClientAssumption DEF ClientInv, HostCloses, queueVars, fenceVars, idleVars, connVars,
                               mainVars, ghostVars, Frame, Commit
  <1>1. ClientTypes'
    BY DEF ClientTypes, Ingress, Ended, Reconnecting, Parked
  <1>2. Processes' /\ Queues' /\ Handshake' /\ Arriving' /\ Accepted' /\ Written' /\ History' /\ Fenced'
    BY DEF Processes, Queues, Handshake, Arriving, Accepted, Written, History, Fenced, OnIngress,
           InQueue, Unsent, WithProxy, InOutput
  <1> QED
    BY <1>1, <1>2

\* Stdout breaks.
LEMMA BreakingStdout == ASSUME ClientInv, StdoutBreaks PROVE ClientInv'
  <1> USE ClientAssumption DEF ClientInv, StdoutBreaks, queueVars, fenceVars, idleVars, connVars,
                               mainVars, ghostVars, Frame, Commit
  <1>1. ClientTypes'
    BY DEF ClientTypes, Ingress, Ended, Reconnecting, Parked
  <1>2. Processes' /\ Queues' /\ Handshake' /\ Arriving' /\ Accepted' /\ Written' /\ History' /\ Fenced'
    BY DEF Processes, Queues, Handshake, Arriving, Accepted, Written, History, Fenced, OnIngress,
           InQueue, Unsent, WithProxy, InOutput
  <1> QED
    BY <1>1, <1>2

-----------------------------------------------------------------------------
(* The theorems                                                            *)

\* A client that has dialled, or one that starts behind a fence.
LEMMA Starts == ClientInit => ClientInv
  <1> SUFFICES ASSUME ClientInit PROVE ClientInv
    OBVIOUS
  <1> USE ClientAssumption DEF ClientInit
  <1>1. /\ <<>> \in Seq(Frame) /\ <<>> \in Seq(Req) /\ <<>> \in Seq(Kinds) /\ Len(<<>>) = 0
        /\ 1 \in 1..MaxConn /\ 1 < MaxConn /\ 0 <= QueueCap
    OBVIOUS
  <1>2. held \in BOOLEAN /\ sequence \in 0..MaxFences /\ (held => sequence = 1) /\ (~held => sequence = 0)
    <2>1. held = FALSE \/ held = (MaxFences > 0)
      OBVIOUS
    <2>2. held \in BOOLEAN /\ (held => MaxFences > 0)
      <3>1. CASE held = FALSE
        BY <3>1
      <3>2. CASE held = (MaxFences > 0)
        <4>1. CASE MaxFences > 0
          BY <3>2, <4>1
        <4>2. CASE ~(MaxFences > 0)
          <5>1. (MaxFences > 0) = FALSE
            BY <4>2
          <5>2. held = FALSE
            BY <3>2, <5>1, Zenon
          <5> QED
            BY <5>2
        <4> QED
          BY <4>1, <4>2
      <3> QED
        BY <2>1, <3>1, <3>2
    <2> QED
      BY <2>2
  <1>3. /\ conn \in Connection /\ conn.n = 1 /\ conn.wire = {}
        /\ conn.state = (IF held THEN "closed" ELSE "open")
    BY <1>1 DEF Connection
  <1>4. /\ answers = [r \in Req |-> <<>>] /\ sent = [w \in Req \cup {Replay} |-> {}]
        /\ admittedAt = [r \in Req |-> NoFrame] /\ ing = [p \in Ingress |-> Idle]
        /\ msgFromCC = <<>> /\ msgFromIPC = <<>> /\ inflight = {} /\ offer = "none"
        /\ wake = NoFrame /\ then = "lost" /\ attempt = "none" /\ host = "open"
        /\ main = (IF held THEN "reconnect" ELSE "proxy") /\ connSequence = sequence
        /\ reader = (IF held THEN "eof" ELSE "run") /\ writer = (IF held THEN "done" ELSE "run")
        /\ budget \in 0..MaxRefreshAttempts
    OBVIOUS
  <1>5. /\ pending \in BOOLEAN /\ wakeup \in BOOLEAN /\ cached \in BOOLEAN /\ initialized \in BOOLEAN
        /\ quiet \in BOOLEAN /\ degraded \in BOOLEAN
    OBVIOUS
  <1>6. suspending = FALSE
    OBVIOUS
  <1> HIDE DEF ClientInit
  <1>7. ClientTypes
    <2>1. answers \in [Req -> Seq(Kinds)] /\ ing \in [Ingress -> {Idle} \cup Accepting] /\ suspending \in BOOLEAN
      BY <1>1, <1>4, <1>6
    <2> QED
      BY <1>1, <1>2, <1>3, <1>4, <1>5, <2>1 DEF ClientTypes, Parked
  <1>8. Processes
    BY <1>1, <1>3, <1>4, <1>6 DEF Processes, Parked, Reconnecting, Ended
  <1>9. Queues /\ Handshake
    BY <1>4, EmptyQueue DEF Queues, Handshake, OnIngress, InQueue, Commit, Ingress
  <1>10. Arriving /\ Accepted /\ Written
    BY <1>4, EmptyQueue DEF Arriving, Accepted, Written, Unsent, InQueue, WithProxy, InOutput, Ingress
  <1>11. History /\ Fenced
    BY <1>4, EmptyQueue, OneLine DEF History, Fenced, InQueue
  <1> QED
    BY <1>7, <1>8, <1>9, <1>10, <1>11 DEF ClientInv

\* Nothing changes in a step that leaves every variable as it is.
LEMMA Stutters == ASSUME ClientInv, UNCHANGED clientVars PROVE ClientInv'
  <1> USE DEF ClientInv, clientVars, queueVars, fenceVars, idleVars, connVars, mainVars, ghostVars
  <1>1. ClientTypes' /\ Processes' /\ Queues'
    BY DEF ClientTypes, Processes, Queues
  <1>2. Handshake' /\ Arriving' /\ Accepted'
    BY DEF Handshake, Arriving, Accepted, OnIngress, InQueue, Unsent, WithProxy
  <1>3. Written' /\ History' /\ Fenced'
    BY DEF Written, History, Fenced, InQueue, InOutput
  <1> QED
    BY <1>1, <1>2, <1>3

\* Every step of every goroutine preserves the invariant.
LEMMA Steps == ASSUME ClientInv, [ClientNext]_clientVars PROVE ClientInv'
  <1>1. CASE Returned
    BY <1>1, Stutters DEF Returned
  <1> QED
    BY <1>1, Reading, Rechecking, Queueing, Injecting, Breaking, Reporting, Relaying, ReadingEnds, Printing,
       Taking, Forwarding, WritingEnds, HostEnds, Draining, Abandoned, Resuming, Losing, Joining, Idling,
       Asking, Suspending, Demanding, Waking, Offering, Negotiating, EndingAway, Starting, Attempting,
       Hearing, Retrying, Degrading, NotFinishing, Finishing, Delivering, ClosingStdin, BreakingStdout,
       Stutters DEF ClientNext

\* Where every request is, and what it was told, in every reachable state: the
\* invariant the other theorems rest on.
THEOREM ClientInvariant == ClientSpec => []ClientInv
  BY Starts, Steps, PTL DEF ClientSpec

\* A request is answered at most once, whoever answers it.
THEOREM AnsweredAtMostOnce == ClientSpec => []OneAnswer
  <1>1. ClientInv => OneAnswer
    <2> SUFFICES ASSUME ClientInv PROVE OneAnswer
      OBVIOUS
    <2>1. ClientTypes
      BY DEF ClientInv
    <2>2. msgFromCC \in SeqOf(Frame, QueueCap) /\ ToSet(msgFromIPC) \subseteq Req
      BY <2>1, ClientAssumption, QueueSet DEF ClientTypes
    <2>3. \A r \in Req : /\ ToSet(answers[r]) \subseteq Kinds
                         /\ admittedAt[r] \in (0..MaxFences) \cup {NoFrame}
      BY <2>1, QueueSet DEF ClientTypes
    <2>7. \A w \in Req \cup {Replay} : sent[w] \subseteq 1..MaxConn
      BY <2>1 DEF ClientTypes
    <2>4. ClientTypeOK
      BY <2>1, <2>2, <2>3, <2>7 DEF ClientTypes, ClientTypeOK, Connection, Accepting, Parked, Reconnecting, Kinds,
                              Frame
    <2>5. Len(<<>>) = 0 /\ \A k \in Kinds : Len(<<k>>) = 1
      OBVIOUS
    <2>6. \A r \in Req : Len(answers[r]) <= 1
      <3>1. \A r \in Req : answers[r] = <<>> \/ \E k \in Kinds : answers[r] = <<k>>
        BY DEF ClientInv, History
      <3>2. ASSUME NEW r \in Req PROVE Len(answers[r]) <= 1
        <4>1. CASE answers[r] = <<>>
          BY <2>5, <4>1
        <4>2. ASSUME NEW k \in Kinds, answers[r] = <<k>> PROVE Len(answers[r]) <= 1
          BY <2>5, <4>2
        <4> QED
          BY <3>1, <4>1, <4>2
      <3> QED
        BY <3>2
    <2> QED
      BY <2>4, <2>6 DEF OneAnswer
  <1> QED
    BY <1>1, ClientInvariant, PTL

\* The cached initialize was accepted before any fence.
Replayable ==
  /\ cached => sequence = 0 /\ ~held /\ admittedAt[InitReq] = 0
  /\ sent[Replay] # {} => admittedAt[InitReq] = 0 /\ 1 \notin sent[Replay]

\* A fence drops the cache; a copy is cached, and written, only before the first one.
LEMMA ReplayableKept ==
  ASSUME ClientInv, Replayable, [ClientNext]_clientVars
  PROVE  /\ Replayable'
         /\ sent'[Replay] # sent[Replay] => ~held /\ admittedAt[InitReq] = sequence
  <1> DEFINE Goal == /\ Replayable'
                     /\ sent'[Replay] # sent[Replay] => ~held /\ admittedAt[InitReq] = sequence
  <1> USE DEF queueVars, fenceVars, idleVars, connVars, mainVars, ghostVars, clientVars
  <1>0. /\ sent \in [Req \cup {Replay} -> SUBSET (1..MaxConn)] /\ Replay \notin Req /\ InitReq \in Req
        /\ admittedAt \in [Req -> (0..MaxFences) \cup {NoFrame}] /\ NoFrame # 0 /\ NoFrame \notin Req
        /\ Commit # Replay
    BY ClientAssumption DEF ClientInv, ClientTypes, Replay, Commit
  <1>10. ASSUME UNCHANGED <<held, sequence, cached, admittedAt>>, sent'[Replay] = sent[Replay] PROVE Goal
    BY <1>10 DEF Replayable
  <1>11. ASSUME enterMaintenance, UNCHANGED <<sent, admittedAt>> PROVE Goal
    BY <1>11 DEF enterMaintenance, Replayable
  <1>12. ASSUME NEW p \in Ingress, ing[p] # Idle, ~Refused(p), Enqueue(ing[p].frame, ing[p].seq),
                UNCHANGED <<held, sequence, sent>>
         PROVE  Goal
    <2>1. ~held /\ ing[p].seq = sequence /\ (ing[p].frame \in Req => admittedAt[ing[p].frame] = NoFrame)
      BY <1>12 DEF Refused, ClientInv, Arriving
    <2>2. /\ admittedAt' = IF ing[p].frame \in Req THEN [admittedAt EXCEPT ![ing[p].frame] = sequence] ELSE admittedAt
          /\ cached' = (cached \/ (ing[p].frame = InitReq /\ sequence = 0))
      BY <1>12, <2>1 DEF Enqueue
    <2>3. admittedAt[InitReq] = 0 => admittedAt'[InitReq] = 0
      BY <1>0, <2>1, <2>2
    <2>4. cached' => sequence = 0 /\ admittedAt'[InitReq] = 0
      BY <1>0, <2>1, <2>2, <2>3 DEF Replayable
    <2> QED
      BY <1>12, <2>1, <2>3, <2>4 DEF Replayable
  <1>13. ASSUME main = "finish", writeReplay, held' = held \/ held' = FALSE, UNCHANGED <<sequence, cached, admittedAt>>
         PROVE  Goal
    <2>1. /\ sent'[Replay] \subseteq sent[Replay] \cup {conn.n + 1}
          /\ sent'[Replay] # sent[Replay] => cached
      BY <1>13, ReplayWritten
    <2>2. conn.n + 1 # 1
      BY DEF ClientInv, ClientTypes, Connection
    <2> QED
      BY <1>13, <2>1, <2>2 DEF Replayable
  <1>1. ASSUME NEW failed \in BOOLEAN, WriterForwards(failed) PROVE Goal
    <2>1. sent'[Replay] = sent[Replay]
      BY <1>0, <1>1 DEF WriterForwards, forwardToIPC, Frame
    <2> QED
      BY <1>1, <1>10, <2>1 DEF WriterForwards
  <1>2. ASSUME NEW failed \in BOOLEAN, ForwardDemand(failed) PROVE Goal
    <2>0. wake \in Req \cup {NoFrame}
      BY DEF ClientInv, ClientTypes
    <2>1. sent'[Replay] = sent[Replay]
      BY <1>0, <1>2, <2>0 DEF ForwardDemand, forwardToIPC
    <2> QED
      BY <1>2, <1>10, <2>1 DEF ForwardDemand
  <1>3. ASSUME NEW p \in Ingress, recheckMaintenance(p) \/ \E f \in Frame : StartIngress(p, f) PROVE Goal
    BY <1>3, <1>10, <1>11 DEF StartIngress, recheckMaintenance
  <1>4. ASSUME \/ ConnectionBreaks \/ ReaderQueues \/ ReaderEnds
               \/ StdoutWrites \/ WriterTakes \/ WriterEnds \/ HostEOF \/ HostGone
        PROVE  Goal
    BY <1>4, <1>10 DEF ConnectionBreaks, ReaderQueues, ReaderEnds, StdoutWrites,
                WriterTakes, WriterEnds, HostEOF, HostGone
  <1>14. ASSUME enqueueHostFrame \/ injectFrame PROVE Goal
    BY <1>14, <1>10, <1>12 DEF enqueueHostFrame, injectFrame, Ingress
  <1>5. ASSUME NEW b \in BOOLEAN, DrainEnds(b) \/ GateAnswers(b) \/ \E q \in Req : ReaderTakes(q, b)
        PROVE  Goal
    BY <1>5, <1>10, <1>11 DEF ReaderTakes, DrainEnds, GateAnswers
  <1>6. ASSUME \/ ResumeWake \/ ConnectionLost \/ JoinWriter \/ DelayPasses \/ IdleTick
               \/ waitForSuspendedDemand \/ SuspendedWake \/ GraceExpires \/ negotiateDormant \/ EOFWhileAway
        PROVE  Goal
    BY <1>6, <1>10 DEF ResumeWake, ConnectionLost, JoinWriter, DelayPasses, IdleTick, waitForSuspendedDemand,
                SuspendedWake, GraceExpires, negotiateDormant, EOFWhileAway
  <1>7. ASSUME \/ StartReconnect \/ AttemptResult \/ RetryNow \/ Degrade
               \/ HostCloses \/ StdoutBreaks \/ Returned
        PROVE  Goal
    BY <1>7, <1>10 DEF StartReconnect, AttemptResult, RetryNow, Degrade, HostCloses, StdoutBreaks, Returned
  <1>15. ASSUME FinishFails \/ FinishReconnect PROVE Goal
    BY <1>15, <1>10, <1>13 DEF FinishFails, FinishReconnect, leaveMaintenance, replayInit
  <1>8. ASSUME NEW result, attemptReconnect(result) PROVE Goal
    BY <1>8, <1>10, <1>11 DEF attemptReconnect
  <1>9. ASSUME UNCHANGED clientVars PROVE Goal
    BY <1>9, <1>10
  <1> HIDE DEF queueVars, fenceVars, idleVars, connVars, mainVars, ghostVars, clientVars, Goal
  <1>16. Goal
    BY <1>1, <1>2, <1>3, <1>4, <1>5, <1>6, <1>7, <1>8, <1>9, <1>14, <1>15 DEF ClientNext
  <1> QED
    BY <1>16 DEF Goal

\* What is replayed was accepted before any fence, in every reachable state.
LEMMA ReplayableAlways == ClientSpec => []Replayable
  <1>1. ClientInit => Replayable
    BY DEF ClientInit, Replayable
  <1>2. ClientInv /\ Replayable /\ [ClientNext]_clientVars => Replayable'
    BY ReplayableKept
  <1> QED
    BY <1>1, <1>2, ClientInvariant, PTL DEF ClientSpec

\* No frame of the host is written to two connections, and what was refused as not
\* sent was not sent, and never will be; of initialize that holds for the host's own
\* frame, whose cached copy is replayed to later connections while no fence came.
THEOREM WrittenAtMostOnce == ClientSpec => []NeverReplayed
  <1>1. ClientInv /\ Replayable => NeverReplayed
    <2> SUFFICES ASSUME ClientInv, NEW r \in Req
                 PROVE  /\ Cardinality(sent[r]) <= 1
                        /\ ToSet(answers[r]) \cap {"notsent", "held", "full"} # {} => sent[r] = {}
      BY DEF NeverReplayed, Replayable
    <2>1. /\ sent[r] = {} \/ \E n \in 1..MaxConn : sent[r] = {n}
          /\ answers[r] = <<>> \/ \E k \in Kinds : answers[r] = <<k>>
          /\ \A k \in Unwritten : answers[r] = <<k>> => sent[r] = {}
      BY DEF ClientInv, History
    <2>3. ToSet(<<>>) = {}
      BY DEF ToSet
    <2>4. Cardinality(sent[r]) <= 1
      <3>1. ASSUME NEW n \in 1..MaxConn, sent[r] = {n} PROVE Cardinality(sent[r]) = 1
        BY <3>1, FS_Singleton
      <3>2. ASSUME sent[r] = {} PROVE Cardinality(sent[r]) = 0
        BY <3>2, FS_EmptySet
      <3> QED
        BY <2>1, <3>1, <3>2
    <2>5. ToSet(answers[r]) \cap {"notsent", "held", "full"} # {} => sent[r] = {}
      <3>1. CASE answers[r] = <<>>
        BY <2>3, <3>1
      <3>2. ASSUME NEW k \in Kinds, answers[r] = <<k>>, k \in {"notsent", "held", "full"} PROVE sent[r] = {}
        BY <2>1, <3>2 DEF Unwritten
      <3>3. ASSUME NEW k \in Kinds, answers[r] = <<k>>, k \notin {"notsent", "held", "full"}
            PROVE  ToSet(answers[r]) \cap {"notsent", "held", "full"} = {}
        <4>1. ToSet(answers[r]) = {k}
          BY <3>3 DEF ToSet
        <4> QED
          BY <3>3, <4>1
      <3> QED
        BY <2>1, <3>1, <3>2, <3>3
    <2> QED
      BY <2>4, <2>5
  <1> QED
    BY <1>1, ClientInvariant, ReplayableAlways, PTL

\* Only the writer and the delivery of a wake demand write a request, outside a
\* fence, and one that was accepted since the last.
LEMMA WritersOnly ==
  ASSUME ClientInv, [ClientNext]_clientVars, NEW r \in Req, sent'[r] # sent[r]
  PROVE  ~held /\ admittedAt[r] = sequence
  <1> USE DEF queueVars, fenceVars, idleVars, connVars, mainVars, ghostVars, clientVars
  <1>0. sent \in [Req \cup {Replay} -> SUBSET (1..MaxConn)]
    BY DEF ClientInv, ClientTypes
  <1>1. ASSUME NEW failed \in BOOLEAN, WriterForwards(failed) PROVE ~held /\ admittedAt[r] = sequence
    <2>1. ~held /\ r = writer
      BY <1>0, <1>1 DEF WriterForwards, forwardToIPC
    <2> QED
      BY <2>1 DEF ClientInv, Fenced
  <1>2. ASSUME NEW failed \in BOOLEAN, ForwardDemand(failed) PROVE ~held /\ admittedAt[r] = sequence
    <2>1. ~held /\ r = wake /\ main = "forward"
      BY <1>0, <1>2 DEF ForwardDemand, forwardToIPC
    <2> QED
      BY <2>1 DEF ClientInv, Fenced, Reconnecting, Ended
  <1>3. ASSUME NEW p \in Ingress, recheckMaintenance(p) \/ \E f \in Frame : StartIngress(p, f) PROVE FALSE
    BY <1>3 DEF StartIngress, recheckMaintenance
  <1>4. ASSUME \/ enqueueHostFrame \/ injectFrame \/ ConnectionBreaks \/ ReaderQueues \/ ReaderEnds
               \/ StdoutWrites \/ WriterTakes \/ WriterEnds \/ HostEOF \/ HostGone
        PROVE  FALSE
    BY <1>4 DEF enqueueHostFrame, injectFrame, ConnectionBreaks, ReaderQueues, ReaderEnds, StdoutWrites,
                WriterTakes, WriterEnds, HostEOF, HostGone
  <1>5. ASSUME NEW b \in BOOLEAN, DrainEnds(b) \/ GateAnswers(b) \/ \E q \in Req : ReaderTakes(q, b)
        PROVE  FALSE
    BY <1>5 DEF ReaderTakes, DrainEnds, GateAnswers
  <1>6. ASSUME \/ ResumeWake \/ ConnectionLost \/ JoinWriter \/ DelayPasses \/ IdleTick
               \/ waitForSuspendedDemand \/ SuspendedWake \/ GraceExpires \/ negotiateDormant \/ EOFWhileAway
        PROVE  FALSE
    BY <1>6 DEF ResumeWake, ConnectionLost, JoinWriter, DelayPasses, IdleTick, waitForSuspendedDemand,
                SuspendedWake, GraceExpires, negotiateDormant, EOFWhileAway
  <1>10. ASSUME FinishFails \/ FinishReconnect PROVE FALSE
    BY <1>10, ReplayWritten DEF FinishFails, FinishReconnect, replayInit
  <1>7. ASSUME \/ StartReconnect \/ AttemptResult \/ RetryNow \/ Degrade
               \/ HostCloses \/ StdoutBreaks \/ Returned
        PROVE  FALSE
    BY <1>7 DEF StartReconnect, AttemptResult, RetryNow, Degrade, HostCloses, StdoutBreaks, Returned
  <1>8. ASSUME NEW result, attemptReconnect(result) PROVE FALSE
    BY <1>8 DEF attemptReconnect
  <1> HIDE DEF queueVars, fenceVars, idleVars, connVars, mainVars
  <1>9. ASSUME UNCHANGED clientVars PROVE FALSE
    BY <1>9
  <1> HIDE DEF ghostVars, clientVars
  <1> QED
    BY <1>1, <1>2, <1>3, <1>4, <1>5, <1>6, <1>7, <1>8, <1>9, <1>10 DEF ClientNext

\* A frame accepted before a maintenance fence is not written after it, wherever it
\* waited meanwhile, and no initialize that was cached before it is replayed.
THEOREM FenceNotCrossed == ClientSpec => NoFenceCrossed
  <1>1. ClientInv /\ Replayable /\ [ClientNext]_clientVars =>
          [/\ \A r \in Req : sent'[r] # sent[r] => ~held /\ admittedAt[r] = sequence
           /\ sent'[Replay] # sent[Replay] => ~held /\ admittedAt[InitReq] = sequence]_clientVars
    BY WritersOnly, ReplayableKept
  <1> QED
    BY <1>1, ClientInvariant, ReplayableAlways, PTL DEF ClientSpec, NoFenceCrossed
==============================================================================
