----------------------------- MODULE RoutingProofs -----------------------------
(***************************************************************************)
(* Proofs about the routing of messages by one owner, for any number of    *)
(* sessions, requests, processes and notifications: a host gets at most    *)
(* one terminal frame per request, pendingRequests counts what is open,    *)
(* and nothing is written about a modern request after its end.            *)
(***************************************************************************)
EXTENDS Routing, FiniteSetTheorems, TLAPS

Forwarding == {"publish", "track", "write", "written"}

\* What the readers, the attempt and the upstream's reader work on.
TaskTypes ==
  /\ at \in [Reader -> [do : Forwarding \cup {"idle", "cancel", "tell", "unlink", "detach", "gone"},
                        q : Request \cup {NoRequest}]]
  /\ \A t \in Reader : at[t].do \in Forwarding \cup {"cancel", "tell"} => at[t].q \in asked
  /\ up \in [do : {"idle", "claim", "deliver", "answer", "progress", "ack", "event", "cancelled"},
             q : Request \cup {NoRequest}]
  /\ up.do # "idle" => up.q \in asked
  /\ replies \in [Request -> Nat]
  /\ process \in [gen : 1 .. MaxGen, alive : BOOLEAN, dead : BOOLEAN]

\* A sender works through sessions.
SendTypes ==
  /\ chan \in [Session -> Seq(Request \cup {NoRequest})]
  /\ send \in [Sender -> [do : {"idle", "offer", "drop", "push"}, to : Seq(Session),
                          q : Request \cup {NoRequest}]]
  /\ \A p \in Sender : send[p].do # "idle" => send[p].to # <<>>

\* A request is forwarded by one task.
OneForwarder ==
  /\ \A t, u \in Reader :
       at[t].do \in Forwarding /\ at[u].do \in Forwarding /\ at[t].q = at[u].q => t = u
  /\ \A t \in Reader : at[t].do \in Forwarding => at[t].q \notin queue

\* The request has not been published.
Starting(q) == q \in queue \/ \E t \in Reader : at[t].do = "publish" /\ at[t].q = q

\* A request that nobody published has left no trace in the tables, and the
\* watchdog is armed once.
Untouched ==
  /\ \A q \in Request : q \notin asked \/ Starting(q) => m[q] = Fresh /\ watch[q] = "off"
  /\ \A q \in Request : q \notin asked => run[q] = "off"
  /\ \A t \in Reader : at[t].do = "track" => watch[at[t].q] = "off"

\* The eras use different tables.
ErasApart ==
  /\ era # "native" => \A q \in Request : run[q] = "off"
  /\ era = "native" => \A t \in Reader : at[t].do \notin Forwarding
  /\ era = "native" => queue = {} /\ tracked = {}
  /\ era # "legacy" => \A q \in Request : watch[q] = "off"
  /\ era # "legacy" => \A t \in Reader : at[t].do # "track"
  /\ isModern => up.do \notin {"claim", "deliver"}

\* The record of a modern request and the table agree; a record ends once, is
\* marked as written when the process has the request, and ends with its session.
Records ==
  /\ \A q \in Request : m[q].live <=> isModern /\ q \in tracked
  /\ \A q \in Request : m[q].live => ~m[q].ended
  /\ \A q \in Request : m[q].live /\ m[q].written => q \in received
  /\ \A t \in Reader : at[t].do \in {"written", "tell"} => at[t].q \in received
  /\ \A q \in Request : m[q].live => From[q] \in linked \/ at[From[q]].do = "detach"

\* Everyone who is yet to answer q, and the answers it got.
One(p) == IF p THEN 1 ELSE 0
Duties(q) ==
  replies[q] + One(Starting(q)) + One(q \in tracked) + One(up.do = "deliver" /\ up.q = q)
    + One(watch[q] = "claimed") + One(q \in drained) + One(run[q] = "handling")
OneDuty ==
  \A q \in Request : Duties(q) <= 1 /\ (q \notin asked => Duties(q) = 0)

\* The requests that pendingRequests counts.
Claimed == {q \in Request : watch[q] = "claimed"}
Running == {q \in Request : run[q] # "off"}
Counted ==
  /\ pending = Cardinality(tracked) + Cardinality(Claimed) + Cardinality(Running)
  /\ Cardinality(Running) <= Slots

RoutingInv ==
  /\ RoutingTypeOK
  /\ TaskTypes
  /\ SendTypes
  /\ OneForwarder
  /\ Untouched
  /\ ErasApart
  /\ Records
  /\ OneDuty
  /\ Counted
  /\ NothingAfterEnd

-----------------------------------------------------------------------------
(* The operators that actions share.                                       *)

\* A task moves on to another stage, the others stay where they are.
LEMMA GoMoves ==
  ASSUME TaskTypes, NEW t \in Reader, NEW q \in Request \cup {NoRequest},
         NEW do \in Forwarding \cup {"idle", "cancel", "tell", "unlink", "detach", "gone"},
         Go(t, do, q)
  PROVE  /\ at' \in [Reader -> [do : Forwarding \cup {"idle", "cancel", "tell", "unlink", "detach", "gone"},
                                q : Request \cup {NoRequest}]]
         /\ at'[t].do = do /\ (do # "idle" => at'[t].q = q)
         /\ \A u \in Reader : u # t => at'[u] = at[u]
  BY DEF Go, TaskTypes, Idle

\* A reply adds a terminal frame to the requests it is for, and to no other.
LEMMA ReplyCounts ==
  ASSUME TaskTypes, NEW Q, Reply(Q)
  PROVE  /\ replies' \in [Request -> Nat]
         /\ \A q \in Request : replies'[q] <= replies[q] + 1
         /\ \A q \in Request \ Q : replies'[q] = replies[q]
  BY DEF Reply, TaskTypes

\* finishModernRequest ends the live records among Q, and takes them out of the
\* table and the count.
LEMMA Finishes ==
  ASSUME RoutingTypeOK, Records, NEW Q, finishModernRequest(Q)
  PROVE  /\ m' \in [Request -> [live : BOOLEAN, written : BOOLEAN, acked : BOOLEAN, ended : BOOLEAN]]
         /\ \A q \in Request \ Ending(Q) : m'[q] = m[q]
         /\ \A q \in Request \cap Ending(Q) : ~m'[q].live
         /\ tracked' = tracked \ Ending(Q)
         /\ \A q \in Request \cap Q : m[q].live => q \in Ending(Q)
  <1> DEFINE Record == [live : BOOLEAN, written : BOOLEAN, acked : BOOLEAN, ended : BOOLEAN]
  <1>1. m \in [Request -> Record]
    BY DEF RoutingTypeOK
  <1>2. \A q \in Request : [m[q] EXCEPT !.live = FALSE, !.written = TRUE, !.ended = TRUE] \in Record
    BY <1>1
  <1>3. \A q \in Request : ~[m[q] EXCEPT !.live = FALSE, !.written = TRUE, !.ended = TRUE].live
    BY <1>1
  <1> QED
    BY <1>1, <1>2, <1>3 DEF finishModernRequest, Ending

\* The tasks of a session are those of a reader.
LEMMA Readers == Session \subseteq Reader /\ "attempt" \in Reader /\ (\A q \in Request : From[q] \in Session)
  BY RoutingAssumption DEF Reader

-----------------------------------------------------------------------------
(* The steps by what they touch.                                           *)

Stage == Forwarding \cup {"idle", "cancel", "tell", "unlink", "detach", "gone"}

\* Notifications that are queued: no table and no task is involved.
NotifStep ==
  \/ \E q \in Request : RouteProgress(q) \/ RouteCallback(q)
  \/ \E to \in SetToSeqs(linked) : Broadcast(to) \/ Notify(to)
  \/ \E p \in Sender : SendStep(p)
  \/ \E s \in Session : DrainNotification(s)

\* Queued notifications leave every table, record and task alone.
LEMMA NotifFrame == NotifStep => UNCHANGED <<hostVars, tables, m, taskVars, procVars, ghosts, cancelled>>
  BY DEF NotifStep, RouteProgress, RouteCallback, Broadcast, Notify, SendStep, Offer, DropOldest, Push,
         DrainNotification

\* The era of an owner does not change.
LEMMA SameEra == [Next]_vars => era' = era
  BY ZenonT(40), NotifFrame
  DEF Next, NotifStep, Replay, Forward, Dispatch, Handler, ForwardQueued, ExpireDemand, CancelQueued,
      CancelLegacy, CancelModern, Respond, WatchdogClaims, WatchdogAnswers, DeliverDrained, ModernNote,
      ReaderStep, PublishLegacy, NoUpstream, TrackRequest, publishModernRequest, WriteLine, Written,
      WriteFails, CancelEnds, CancelTells, UpstreamStep, ClaimResponse, DeliverResponse,
      handleModernUpstreamResponse, handleModernUpstreamNotification, Leave, Unlink, Detach, Break,
      Die, Drain, Replace, vars, hostVars

\* A task enters publishing from Forward or ForwardQueued; otherwise it goes on
\* with its request or gives it up.
Onwards ==
  /\ queue' \subseteq queue
  /\ \/ UNCHANGED at
     \/ \E t \in Reader, d \in Stage \ {"publish"}, q \in Request \cup {NoRequest} :
          /\ Go(t, d, q)
          /\ d \in Forwarding => at[t].do \in Forwarding /\ at[t].q = q
          /\ d \in Forwarding \cup {"cancel", "tell"} => q \in asked
          /\ d = "track" => PublishLegacy(t)
          /\ d = "written" => WriteLine(t)
          /\ d = "tell" => CancelEnds(t)
          /\ at[t].do = "detach" => t \in Session /\ Detach(t)

\* Every step that moves a task is of one of those kinds.
LEMMA TaskMoves ==
  ASSUME RoutingInv, [Next]_vars
  PROVE  (\E q \in Request : Forward(q) \/ ForwardQueued(q)) \/ Onwards
  <1>0. /\ TaskTypes
        /\ \A t \in Reader : at[t].q \in Request \cup {NoRequest}
        /\ \A t \in Reader : at[t].do \in Forwarding \cup {"cancel", "tell"} => at[t].q \in asked
    BY DEF RoutingInv, TaskTypes
  <1> USE DEF Onwards, Stage, Forwarding
  <1>1. CASE UNCHANGED <<queue, at>>
    BY <1>1
  <1>2. CASE \E q \in Request : ExpireDemand(q) \/ CancelQueued(q)
    BY <1>2 DEF ExpireDemand, CancelQueued, taskVars
  <1>3. CASE \E q \in Request : CancelModern(q)
    <2> PICK q \in Request : CancelModern(q)
      BY <1>3
    <2>1. at[From[q]].do = "idle" /\ queue' = queue /\ q \in asked
      BY DEF CancelModern, Cancellable, Idle, hostVars
    <2>2. Go(From[q], "cancel", q) \/ Go(From[q], "idle", q)
      BY DEF CancelModern
    <2> QED
      BY <2>1, <2>2, Readers
  <1>4. CASE \E t \in Reader : ReaderStep(t)
    <2> PICK t \in Reader : ReaderStep(t)
      BY <1>4
    <2>1. CASE PublishLegacy(t) \/ TrackRequest(t)
      BY <1>0, <2>1 DEF PublishLegacy, TrackRequest, hostVars
    <2>2. CASE publishModernRequest(t) \/ WriteLine(t)
      BY <1>0, <2>2 DEF publishModernRequest, WriteLine, hostVars
    <2>3. CASE NoUpstream(t) \/ Written(t) \/ WriteFails(t)
      BY <1>0, <2>3 DEF NoUpstream, Written, WriteFails, hostVars
    <2>4. CASE CancelEnds(t)
      <3>1. /\ Go(t, "tell", at[t].q) \/ Go(t, "idle", at[t].q)
            /\ at[t].do = "cancel" /\ queue' = queue
        BY <2>4 DEF CancelEnds, hostVars
      <3> QED
        BY <1>0, <2>4, <3>1
    <2>5. CASE CancelTells(t)
      BY <1>0, <2>5 DEF CancelTells, hostVars
    <2> QED
      BY <2>1, <2>2, <2>3, <2>4, <2>5 DEF ReaderStep
  <1>5. CASE \E s \in Session : Leave(s) \/ Unlink(s) \/ Detach(s)
    <2> PICK s \in Session : Leave(s) \/ Unlink(s) \/ Detach(s)
      BY <1>5
    <2>1. queue' \subseteq queue
      BY DEF Leave, Unlink, Detach
    <2>2. \/ Go(s, "unlink", NoRequest) /\ at[s].do = "idle"
          \/ Go(s, "detach", NoRequest) /\ at[s].do = "unlink"
          \/ Go(s, "gone", NoRequest) /\ Detach(s)
      BY DEF Leave, Unlink, Detach, Idle
    <2> QED
      BY <2>1, <2>2, Readers
  <1> QED
    BY <1>1, <1>2, <1>3, <1>4, <1>5, NotifFrame
    DEF Next, NotifStep, Replay, Dispatch, Handler, CancelLegacy, Respond, WatchdogClaims,
        WatchdogAnswers, DeliverDrained, ModernNote, UpstreamStep, ClaimResponse, DeliverResponse,
        handleModernUpstreamResponse, handleModernUpstreamNotification, Break, Die, Drain, Replace,
        vars, hostVars, taskVars

\* A request is read once and leaves the queue once, so that one task forwards it.
LEMMA ForwarderStep == ASSUME RoutingInv, [Next]_vars PROVE OneForwarder'
  <1>0. /\ OneForwarder /\ TaskTypes
        /\ queue \subseteq asked /\ asked \subseteq Request
    BY DEF RoutingInv, RoutingTypeOK
  <1>1. ASSUME NEW q \in Request, Forward(q) PROVE OneForwarder'
    <2>1. q \notin asked /\ at[From[q]] = Idle /\ From[q] \in Reader
      BY <1>1, Readers DEF Forward, Unread
    <2>2. CASE process.dead
      BY <1>0, <1>1, <2>1, <2>2 DEF Forward, OneForwarder, TaskTypes
    <2>3. CASE ~process.dead
      <3>1. Go(From[q], "publish", q) /\ queue' = queue
        BY <1>1, <2>3 DEF Forward
      <3>2. /\ at'[From[q]].do = "publish" /\ at'[From[q]].q = q
            /\ \A u \in Reader : u # From[q] => at'[u] = at[u]
        BY <1>0, <2>1, <3>1, GoMoves DEF Forwarding
      <3> QED
        BY <1>0, <2>1, <3>1, <3>2 DEF OneForwarder, TaskTypes
    <2> QED
      BY <2>2, <2>3
  <1>2. ASSUME NEW q \in Request, ForwardQueued(q) PROVE OneForwarder'
    <2>1. /\ q \in queue /\ queue' = queue \ {q} /\ at["attempt"] = Idle
          /\ Go("attempt", "publish", q)
      BY <1>2 DEF ForwardQueued
    <2>2. /\ at'["attempt"].do = "publish" /\ at'["attempt"].q = q
          /\ \A u \in Reader : u # "attempt" => at'[u] = at[u]
      BY <1>0, <2>1, GoMoves, Readers DEF Forwarding
    <2> QED
      BY <1>0, <2>1, <2>2, Readers DEF OneForwarder
  <1>3. ASSUME Onwards PROVE OneForwarder'
    <2>1. CASE UNCHANGED at
      BY <1>0, <1>3, <2>1 DEF Onwards, OneForwarder
    <2>2. CASE ~UNCHANGED at
      <3>1. PICK t \in Reader, d \in Stage, q \in Request \cup {NoRequest} :
                /\ Go(t, d, q)
                /\ d \in Forwarding => at[t].do \in Forwarding /\ at[t].q = q
        BY <1>3, <2>2 DEF Onwards
      <3>2. /\ at'[t].do = d /\ (d # "idle" => at'[t].q = q)
            /\ \A u \in Reader : u # t => at'[u] = at[u]
        BY <1>0, <3>1, GoMoves DEF Stage
      <3> QED
        BY <1>0, <1>3, <3>1, <3>2 DEF OneForwarder, Onwards, Forwarding
    <2> QED
      BY <2>1, <2>2
  <1> QED
    BY <1>1, <1>2, <1>3, TaskMoves

\* What was read stays read.
LEMMA AskedGrows == [Next]_vars => asked \subseteq asked'
  BY ZenonT(40), NotifFrame
  DEF Next, NotifStep, Replay, Forward, Dispatch, Handler, ForwardQueued, ExpireDemand, CancelQueued,
      CancelLegacy, CancelModern, Respond, WatchdogClaims, WatchdogAnswers, DeliverDrained, ModernNote,
      ReaderStep, PublishLegacy, NoUpstream, TrackRequest, publishModernRequest, WriteLine, Written,
      WriteFails, CancelEnds, CancelTells, UpstreamStep, ClaimResponse, DeliverResponse,
      handleModernUpstreamResponse, handleModernUpstreamNotification, Leave, Unlink, Detach, Break,
      Die, Drain, Replace, vars, hostVars

\* The tasks work on requests that were read.
LEMMA TaskStep == ASSUME RoutingInv, [Next]_vars PROVE TaskTypes'
  <1>0. /\ TaskTypes /\ asked \subseteq asked' /\ asked \subseteq Request /\ queue \subseteq asked
        /\ owes \subseteq asked
    BY AskedGrows DEF RoutingInv, RoutingTypeOK
  <1> DEFINE Work == Forwarding \cup {"cancel", "tell"}
             Tasks == [do : Stage, q : Request \cup {NoRequest}]
  <1>1. /\ at' \in [Reader -> Tasks]
        /\ \A t \in Reader : at'[t].do \in Work => at'[t].q \in asked'
    <2>1. ASSUME NEW q \in Request, Forward(q) \/ ForwardQueued(q) PROVE <1>1!:
      <3>1. \/ UNCHANGED at
            \/ q \in asked' /\ \E t \in Reader : Go(t, "publish", q)
        BY <1>0, <2>1, Readers DEF Forward, ForwardQueued
      <3>2. CASE UNCHANGED at
        BY <1>0, <3>2 DEF TaskTypes, Stage
      <3>3. ASSUME q \in asked', NEW t \in Reader, Go(t, "publish", q) PROVE <1>1!:
        BY <1>0, <3>3, GoMoves DEF TaskTypes, Stage, Forwarding
      <3> QED
        BY <3>1, <3>2, <3>3
    <2>2. ASSUME Onwards PROVE <1>1!:
      <3>1. CASE UNCHANGED at
        BY <1>0, <3>1 DEF TaskTypes, Stage
      <3>2. CASE ~UNCHANGED at
        <4>1. PICK t \in Reader, d \in Stage, q \in Request \cup {NoRequest} :
                  Go(t, d, q) /\ (d \in Work => q \in asked)
          BY <2>2, <3>2 DEF Onwards
        <4>2. /\ at' \in [Reader -> Tasks] /\ at'[t].do = d /\ (d # "idle" => at'[t].q = q)
              /\ \A u \in Reader : u # t => at'[u] = at[u]
          BY <1>0, <4>1, GoMoves DEF Stage
        <4> QED
          BY <1>0, <4>1, <4>2 DEF TaskTypes, Forwarding
      <3> QED
        BY <3>1, <3>2
    <2> QED
      BY <2>1, <2>2, TaskMoves
  <1>2. /\ up' \in [do : {"idle", "claim", "deliver", "answer", "progress", "ack", "event", "cancelled"},
                    q : Request \cup {NoRequest}]
        /\ up'.do # "idle" => up'.q \in asked'
    <2>1. CASE UNCHANGED up
      BY <1>0, <2>1 DEF TaskTypes
    <2>2. CASE up' = Idle
      BY <2>2 DEF Idle
    <2>3. CASE \E q \in Request : Respond(q) \/
                 \E what \in {"progress", "ack", "event", "cancelled"} : ModernNote(q, what)
      BY <1>0, <2>1, <2>3 DEF Respond, ModernNote
    <2>4. CASE ClaimResponse
      BY <1>0, <2>2, <2>4 DEF ClaimResponse, TaskTypes
    <2> QED
      BY <2>1, <2>2, <2>3, <2>4, NotifFrame
      DEF Next, NotifStep, Replay, Forward, Dispatch, Handler, ForwardQueued, ExpireDemand,
          CancelQueued, CancelLegacy, CancelModern, WatchdogClaims, WatchdogAnswers, DeliverDrained,
          ReaderStep, PublishLegacy, NoUpstream, TrackRequest, publishModernRequest, WriteLine,
          Written, WriteFails, CancelEnds, CancelTells, UpstreamStep, DeliverResponse,
          handleModernUpstreamResponse, handleModernUpstreamNotification, Leave, Unlink, Detach,
          Break, Die, Drain, Replace, vars, taskVars
  <1>3. replies' \in [Request -> Nat]
    <2>1. UNCHANGED replies \/ \E Q : Reply(Q)
      BY ZenonT(40), NotifFrame
      DEF Next, NotifStep, Replay, Forward, Dispatch, Handler, ForwardQueued, ExpireDemand,
          CancelQueued, CancelLegacy, CancelModern, Respond, ModernNote, WatchdogClaims,
          WatchdogAnswers, DeliverDrained, ReaderStep, PublishLegacy, NoUpstream, TrackRequest,
          publishModernRequest, WriteLine, Written, WriteFails, CancelEnds, CancelTells,
          UpstreamStep, ClaimResponse, DeliverResponse, handleModernUpstreamResponse,
          handleModernUpstreamNotification, Leave, Unlink, Detach, Break, Die, Drain, Replace,
          vars, ghosts
    <2> QED
      BY <1>0, <2>1, ReplyCounts DEF TaskTypes
  <1>4. process' \in [gen : 1 .. MaxGen, alive : BOOLEAN, dead : BOOLEAN]
    <2>1. CASE UNCHANGED process
      BY <1>0, <2>1 DEF TaskTypes
    <2>2. CASE Die \/ Drain
      BY <1>0, <2>2 DEF Die, Drain, TaskTypes
    <2>3. CASE Replace
      BY <1>0, <2>3, RoutingAssumption DEF Replace, TaskTypes
    <2> QED
      BY ZenonT(40), <2>1, <2>2, <2>3, NotifFrame
      DEF Next, NotifStep, Replay, Forward, Dispatch, Handler, ForwardQueued, ExpireDemand,
          CancelQueued, CancelLegacy, CancelModern, Respond, ModernNote, WatchdogClaims,
          WatchdogAnswers, DeliverDrained, ReaderStep, PublishLegacy, NoUpstream, TrackRequest,
          publishModernRequest, WriteLine, Written, WriteFails, CancelEnds, CancelTells,
          UpstreamStep, ClaimResponse, DeliverResponse, handleModernUpstreamResponse,
          handleModernUpstreamNotification, Leave, Unlink, Detach, Break, vars, procVars
  <1> QED
    BY <1>1, <1>2, <1>3, <1>4 DEF TaskTypes, Stage

-----------------------------------------------------------------------------
\* A request is unpublished only if it was before.
LEMMA StartsFresh ==
  ASSUME RoutingInv, [Next]_vars, NEW q \in Request, q \notin asked' \/ Starting(q)'
  PROVE  q \notin asked \/ Starting(q)
  <1>0. TaskTypes /\ asked \subseteq asked'
    BY AskedGrows DEF RoutingInv
  <1>1. ASSUME NEW r \in Request, Forward(r) \/ ForwardQueued(r), Starting(q)'
        PROVE  q \notin asked \/ Starting(q)
    <2>1. \/ UNCHANGED at /\ queue' = queue \cup {r} /\ r \notin asked
          \/ queue' \subseteq queue /\ (r \in queue \/ r \notin asked) /\ \E t \in Reader : Go(t, "publish", r)
      BY <1>1, Readers DEF Forward, ForwardQueued, Unread
    <2>2. CASE UNCHANGED at /\ queue' = queue \cup {r} /\ r \notin asked
      BY <1>1, <2>2 DEF Starting
    <2>3. ASSUME queue' \subseteq queue, r \in queue \/ r \notin asked,
                 NEW t \in Reader, Go(t, "publish", r)
          PROVE  q \notin asked \/ Starting(q)
      <3>1. at'[t].q = r /\ \A u \in Reader : u # t => at'[u] = at[u]
        BY <1>0, <2>3, GoMoves DEF Forwarding
      <3> QED
        BY <1>1, <2>3, <3>1 DEF Starting
    <2> QED
      BY <2>1, <2>2, <2>3
  <1>2. ASSUME Onwards, Starting(q)' PROVE Starting(q)
    <2>1. CASE UNCHANGED at
      BY <1>2, <2>1 DEF Onwards, Starting
    <2>2. ASSUME NEW t \in Reader, NEW d \in Stage \ {"publish"}, NEW r \in Request \cup {NoRequest}, Go(t, d, r)
          PROVE  Starting(q)
      <3>1. at'[t].do = d /\ \A u \in Reader : u # t => at'[u] = at[u]
        BY <1>0, <2>2, GoMoves DEF Stage
      <3> QED
        BY <1>2, <2>2, <3>1 DEF Onwards, Starting
    <2> QED
      BY <1>2, <2>1, <2>2 DEF Onwards
  <1> QED
    BY <1>0, <1>1, <1>2, TaskMoves

\* The request a task has published is not waiting anywhere to be published.
LEMMA Published ==
  ASSUME RoutingInv, NEW t \in Reader, at[t].do \in Forwarding \ {"publish"}
  PROVE  /\ at[t].q \in asked /\ ~Starting(at[t].q)
         /\ \A u \in Reader : at[u].do = "track" /\ at[u].q = at[t].q => u = t
  BY DEF RoutingInv, OneForwarder, TaskTypes, Starting, Forwarding

\* Until a request is published no table changes for it, and its record is new.
LEMMA UntouchedStep == ASSUME RoutingInv, [Next]_vars PROVE Untouched'
  <1>0. /\ RoutingTypeOK /\ TaskTypes /\ OneForwarder /\ Untouched /\ Records
        /\ asked \subseteq asked' /\ asked \subseteq Request
    BY AskedGrows DEF RoutingInv, RoutingTypeOK
  <1>1. ASSUME NEW q \in Request, q \notin asked' \/ Starting(q)'
        PROVE  m'[q] = Fresh /\ watch'[q] = "off"
    <2>1. m[q] = Fresh /\ watch[q] = "off" /\ (q \notin asked \/ Starting(q))
      BY <1>0, <1>1, StartsFresh DEF Untouched
    <2>2. ~m[q].live
      BY <2>1 DEF Fresh
    <2>3. CASE UNCHANGED <<m, watch>>
      BY <2>1, <2>3
    <2>4. CASE watch' = watch /\ \E Q : finishModernRequest(Q)
      BY <1>0, <2>1, <2>2, <2>4, Finishes DEF Ending
    <2>5. CASE \E r \in Request : WatchdogClaims(r) \/ WatchdogAnswers(r)
      BY <1>0, <2>1, <2>5 DEF WatchdogClaims, WatchdogAnswers, RoutingTypeOK
    <2>6. CASE handleModernUpstreamNotification
      BY <1>0, <2>1, <2>2, <2>3, <2>4, <2>6
      DEF handleModernUpstreamNotification, Deliverable, RoutingTypeOK
    <2>7. ASSUME NEW t \in Reader, TrackRequest(t) \/ Written(t) \/ WriteFails(t)
          PROVE  m'[q] = Fresh /\ watch'[q] = "off"
      <3>1. at[t].q # q
        BY <1>0, <2>1, <2>7, Published DEF TrackRequest, Written, WriteFails, Forwarding
      <3> QED
        BY <1>0, <2>1, <2>3, <2>4, <2>7, <3>1
        DEF TrackRequest, Written, WriteFails, RoutingTypeOK
    <2>8. ASSUME NEW t \in Reader, publishModernRequest(t) PROVE m'[q] = Fresh /\ watch'[q] = "off"
      <3>1. CASE ~Publishable(at[t].q)
        BY <2>3, <2>8, <3>1 DEF publishModernRequest
      <3>2. CASE Publishable(at[t].q)
        <4>1. Go(t, "write", at[t].q) /\ at[t].q \in Request /\ watch' = watch
              /\ m' = [m EXCEPT ![at[t].q].live = TRUE] /\ queue' = queue
          BY <1>0, <2>8, <3>2 DEF publishModernRequest, TaskTypes, hostVars, Forwarding
        <4>2. at'[t].do = "write" /\ \A u \in Reader : u # t => at'[u] = at[u]
          BY <1>0, <4>1, GoMoves DEF Forwarding
        <4>3. at[t].q # q
          BY <1>0, <1>1, <2>8, <4>1, <4>2
          DEF publishModernRequest, Starting, OneForwarder, TaskTypes, Forwarding
        <4> QED
          BY <1>0, <2>1, <4>1, <4>3 DEF RoutingTypeOK
      <3> QED
        BY <3>1, <3>2
    <2> QED
      BY <2>3, <2>4, <2>5, <2>6, <2>7, <2>8, NotifFrame
      DEF Next, NotifStep, Replay, Forward, Dispatch, Handler, ForwardQueued, ExpireDemand,
          CancelQueued, CancelLegacy, CancelModern, Respond, ModernNote, DeliverDrained, ReaderStep,
          PublishLegacy, NoUpstream, WriteLine, CancelEnds, CancelTells, UpstreamStep,
          ClaimResponse, DeliverResponse, handleModernUpstreamResponse, Leave, Unlink, Detach,
          Break, Die, Drain, Replace, vars, taskVars
  <1>2. ASSUME NEW q \in Request, q \notin asked' PROVE run'[q] = "off"
    <2>1. run[q] = "off" /\ run \in [Request -> {"off", "handling", "returned"}]
      BY <1>0, <1>2 DEF Untouched, RoutingTypeOK
    <2>2. CASE UNCHANGED run
      BY <2>1, <2>2
    <2>3. CASE \E r \in Request : Dispatch(r)
      BY <1>2, <2>1, <2>3 DEF Dispatch
    <2>4. CASE \E r \in Request : Handler(r)
      BY <2>1, <2>4 DEF Handler
    <2> QED
      BY ZenonT(40), <2>2, <2>3, <2>4, NotifFrame
      DEF Next, NotifStep, Replay, Forward, ForwardQueued, ExpireDemand, CancelQueued,
          CancelLegacy, CancelModern, Respond, ModernNote, WatchdogClaims, WatchdogAnswers,
          DeliverDrained, ReaderStep, PublishLegacy, NoUpstream, TrackRequest,
          publishModernRequest, WriteLine, Written, WriteFails, CancelEnds, CancelTells,
          UpstreamStep, ClaimResponse, DeliverResponse, handleModernUpstreamResponse,
          handleModernUpstreamNotification, Leave, Unlink, Detach, Break, Die, Drain, Replace,
          vars, taskVars
  <1>3. ASSUME NEW t \in Reader, at'[t].do = "track" PROVE watch'[at'[t].q] = "off"
    <2>1. CASE PublishLegacy(t)
      <3>1. Go(t, "track", at[t].q) /\ watch' = watch /\ Starting(at[t].q) /\ at[t].q \in Request
        BY <1>0, <2>1 DEF PublishLegacy, Starting, TaskTypes, Forwarding
      <3>2. at'[t].q = at[t].q
        BY <1>0, <3>1, GoMoves DEF Forwarding
      <3> QED
        BY <1>0, <3>1, <3>2 DEF Untouched
    <2>2. CASE at'[t] = at[t]
      <3>1. watch[at[t].q] = "off" /\ at[t].q \in Request
        BY <1>0, <1>3, <2>2 DEF Untouched, TaskTypes, Forwarding
      <3>2. CASE UNCHANGED watch
        BY <2>2, <3>1, <3>2
      <3>3. CASE \E r \in Request : WatchdogClaims(r) \/ WatchdogAnswers(r)
        BY <1>0, <2>2, <3>1, <3>3 DEF WatchdogClaims, WatchdogAnswers, RoutingTypeOK
      <3>4. ASSUME NEW u \in Reader, TrackRequest(u) PROVE watch'[at'[t].q] = "off"
        <4>1. u # t
          <5>1. SUFFICES ASSUME u = t PROVE FALSE
            OBVIOUS
          <5>2. at'[t].do = "write"
            BY <1>0, <3>1, <3>4, <5>1, GoMoves DEF TrackRequest, Forwarding
          <5> QED
            BY <1>3, <5>2
        <4>2. at[u].q # at[t].q
          BY <1>0, <1>3, <2>2, <3>4, <4>1 DEF OneForwarder, TrackRequest, Forwarding
        <4> QED
          BY <1>0, <2>2, <3>1, <3>4, <4>2 DEF TrackRequest, RoutingTypeOK
      <3> QED
        BY <3>2, <3>3, <3>4, NotifFrame
        DEF Next, NotifStep, Replay, Forward, Dispatch, Handler, ForwardQueued, ExpireDemand,
            CancelQueued, CancelLegacy, CancelModern, Respond, ModernNote, DeliverDrained,
            ReaderStep, PublishLegacy, NoUpstream, publishModernRequest, WriteLine, Written,
            WriteFails, CancelEnds, CancelTells, UpstreamStep, ClaimResponse, DeliverResponse,
            handleModernUpstreamResponse, handleModernUpstreamNotification, Leave, Unlink, Detach,
            Break, Die, Drain, Replace, vars, taskVars
    <2>3. PublishLegacy(t) \/ at'[t] = at[t]
      <3>1. ASSUME NEW r \in Request, Forward(r) \/ ForwardQueued(r) PROVE at'[t] = at[t]
        <4>1. UNCHANGED at \/ \E u \in Reader : Go(u, "publish", r)
          BY <3>1, Readers DEF Forward, ForwardQueued
        <4> QED
          BY <1>0, <1>3, <4>1, GoMoves DEF Forwarding
      <3>2. CASE Onwards
        <4>1. CASE UNCHANGED at
          BY <4>1
        <4>2. ASSUME NEW u \in Reader, NEW d \in Stage, NEW r \in Request \cup {NoRequest},
                     Go(u, d, r), d = "track" => PublishLegacy(u)
              PROVE  PublishLegacy(t) \/ at'[t] = at[t]
          BY <1>0, <1>3, <4>2, GoMoves DEF Stage
        <4> QED
          BY <3>2, <4>1, <4>2 DEF Onwards
      <3> QED
        BY <3>1, <3>2, TaskMoves
    <2> QED
      BY <2>1, <2>2, <2>3
  <1> QED
    BY <1>1, <1>2, <1>3 DEF Untouched

\* Who adds to the table of tracked requests.
LEMMA WhoTracks ==
  ASSUME [Next]_vars
  PROVE  (\E t \in Reader : PublishLegacy(t) \/ publishModernRequest(t)) \/ tracked' \subseteq tracked
  BY ZenonT(40), NotifFrame
  DEF Next, NotifStep, Replay, Forward, Dispatch, Handler, ForwardQueued, ExpireDemand, CancelQueued,
      CancelLegacy, CancelModern, Respond, ModernNote, WatchdogClaims, WatchdogAnswers,
      DeliverDrained, ReaderStep, NoUpstream, TrackRequest, WriteLine, Written, WriteFails,
      CancelEnds, CancelTells, UpstreamStep, ClaimResponse, DeliverResponse,
      handleModernUpstreamResponse, handleModernUpstreamNotification, Leave, Unlink, Detach, Break,
      Die, Drain, Replace, finishModernRequest, vars, tables

\* Who uses the watchdogs and the handlers.
LEMMA WhoWatches ==
  ASSUME [Next]_vars
  PROVE  /\ \/ \E t \in Reader : TrackRequest(t)
            \/ \E q \in Request : WatchdogClaims(q) \/ WatchdogAnswers(q)
            \/ UNCHANGED watch
         /\ \/ \E q \in Request : Dispatch(q) \/ Handler(q)
            \/ UNCHANGED run
  BY ZenonT(40), NotifFrame
  DEF Next, NotifStep, Replay, Forward, Dispatch, Handler, ForwardQueued, ExpireDemand, CancelQueued,
      CancelLegacy, CancelModern, Respond, ModernNote, WatchdogClaims, WatchdogAnswers,
      DeliverDrained, ReaderStep, PublishLegacy, NoUpstream, TrackRequest, publishModernRequest,
      WriteLine, Written, WriteFails, CancelEnds, CancelTells, UpstreamStep, ClaimResponse,
      DeliverResponse, handleModernUpstreamResponse, handleModernUpstreamNotification, Leave,
      Unlink, Detach, Break, Die, Drain, Replace, vars, taskVars

\* What the upstream's reader takes up.
LEMMA WhoReads ==
  ASSUME [Next]_vars
  PROVE  \/ \E q \in Request : Respond(q)
         \/ \E q \in Request, what \in {"progress", "ack", "event", "cancelled"} : ModernNote(q, what)
         \/ ClaimResponse
         \/ up' \in {up, Idle}
  BY NotifFrame
  DEF Next, NotifStep, Replay, Forward, Dispatch, Handler, ForwardQueued, ExpireDemand, CancelQueued,
      CancelLegacy, CancelModern, WatchdogClaims, WatchdogAnswers, DeliverDrained, ReaderStep,
      PublishLegacy, NoUpstream, TrackRequest, publishModernRequest, WriteLine, Written, WriteFails,
      CancelEnds, CancelTells, UpstreamStep, DeliverResponse, handleModernUpstreamResponse,
      handleModernUpstreamNotification, Leave, Unlink, Detach, Break, Die, Drain, Replace, vars,
      taskVars

\* The eras stay apart.
LEMMA EraStep == ASSUME RoutingInv, [Next]_vars PROVE ErasApart'
  <1>0. ErasApart /\ era' = era /\ TaskTypes /\ RoutingTypeOK
    BY SameEra DEF RoutingInv
  <1>1. era # "native" => \A q \in Request : run'[q] = "off"
    BY <1>0, WhoWatches DEF ErasApart, Dispatch, Handler
  <1>2. era # "legacy" => \A q \in Request : watch'[q] = "off"
    BY <1>0, WhoWatches DEF ErasApart, TrackRequest, WatchdogClaims, WatchdogAnswers
  <1>3. era = "native" => queue' = {} /\ tracked' = {} /\ \A t \in Reader : at'[t].do \notin Forwarding
    <2> SUFFICES ASSUME era = "native" PROVE <1>3!2
      OBVIOUS
    <2>1. queue = {} /\ tracked = {} /\ \A t \in Reader : at[t].do \notin Forwarding
      BY <1>0 DEF ErasApart
    <2>2. Onwards
      BY <2>1, TaskMoves DEF Forward, ForwardQueued
    <2>3. tracked' = {}
      BY <2>1, WhoTracks DEF PublishLegacy, publishModernRequest, isModern
    <2>4. ASSUME NEW t \in Reader, NEW d \in Stage, NEW q \in Request \cup {NoRequest},
                 Go(t, d, q), d \notin Forwarding
          PROVE  \A u \in Reader : at'[u].do \notin Forwarding
      BY <1>0, <2>1, <2>4, GoMoves DEF Stage
    <2> QED
      BY <2>1, <2>2, <2>3, <2>4 DEF Onwards
  <1>4. era # "legacy" => \A t \in Reader : at'[t].do # "track"
    <2> SUFFICES ASSUME era # "legacy" PROVE \A t \in Reader : at'[t].do # "track"
      OBVIOUS
    <2>1. \A t \in Reader : at[t].do # "track"
      BY <1>0 DEF ErasApart
    <2>2. ASSUME NEW q \in Request, Forward(q) \/ ForwardQueued(q)
          PROVE  \A t \in Reader : at'[t].do # "track"
      <3>1. UNCHANGED at \/ \E u \in Reader : Go(u, "publish", q)
        BY <2>2, Readers DEF Forward, ForwardQueued
      <3> QED
        BY <1>0, <2>1, <3>1, GoMoves DEF Forwarding
    <2>3. ASSUME NEW t \in Reader, NEW d \in Stage, NEW q \in Request \cup {NoRequest},
                 Go(t, d, q), d = "track" => PublishLegacy(t)
          PROVE  \A u \in Reader : at'[u].do # "track"
      <3>1. d # "track"
        BY <2>3 DEF PublishLegacy
      <3> QED
        BY <1>0, <2>1, <2>3, <3>1, GoMoves DEF Stage
    <2> QED
      BY <2>1, <2>2, <2>3, TaskMoves DEF Onwards
  <1>5. isModern => up'.do \notin {"claim", "deliver"}
    <2> SUFFICES ASSUME isModern PROVE up'.do \notin {"claim", "deliver"}
      OBVIOUS
    <2>1. up.do \notin {"claim", "deliver"}
      BY <1>0 DEF ErasApart
    <2>2. ASSUME NEW q \in Request, Respond(q) PROVE up' = up \/ up' = [do |-> "answer", q |-> q]
      BY <2>2 DEF Respond
    <2>3. ASSUME NEW q \in Request, NEW what \in {"progress", "ack", "event", "cancelled"},
                 ModernNote(q, what)
          PROVE  up'.do \notin {"claim", "deliver"}
      BY <2>3 DEF ModernNote
    <2> QED
      BY <2>1, <2>2, <2>3, WhoReads DEF ClaimResponse, Idle
  <1> QED
    BY <1>0, <1>1, <1>2, <1>3, <1>4, <1>5 DEF ErasApart, isModern

-----------------------------------------------------------------------------
Record == [live : BOOLEAN, written : BOOLEAN, acked : BOOLEAN, ended : BOOLEAN]

\* The record of a request begins when it is published, is marked as written
\* after the write, and is not live once it was ended.
RecordMoves(q) ==
  \/ ~m'[q].live
  \/ /\ m'[q].live = m[q].live /\ m'[q].ended = m[q].ended
     /\ m'[q].written = m[q].written \/ \E t \in Reader : Written(t) /\ at[t].q = q
  \/ /\ ~m'[q].ended /\ ~m'[q].written
     /\ \E t \in Reader : publishModernRequest(t) /\ Publishable(q) /\ at[t].q = q

\* Every step moves every record in one of those ways.
LEMMA RecordStep ==
  ASSUME RoutingInv, [Next]_vars
  PROVE  m' \in [Request -> Record] /\ \A q \in Request : RecordMoves(q)
  <1>0. RoutingTypeOK /\ TaskTypes /\ Untouched /\ Records /\ ErasApart /\ m \in [Request -> Record]
        /\ \A t \in Reader : at[t].do \in Forwarding => at[t].q \in Request
    BY DEF RoutingInv, RoutingTypeOK, Record, TaskTypes
  <1>1. CASE UNCHANGED m
    BY <1>0, <1>1 DEF RecordMoves
  <1>2. CASE \E Q : finishModernRequest(Q)
    BY <1>0, <1>2, Finishes DEF RecordMoves, Record
  <1>3. ASSUME NEW t \in Reader, publishModernRequest(t) PROVE m' \in [Request -> Record] /\ \A q \in Request : RecordMoves(q)
    <2>1. CASE ~Publishable(at[t].q)
      BY <1>1, <1>3, <2>1 DEF publishModernRequest
    <2>2. CASE Publishable(at[t].q)
      <3>1. at[t].q \in Request /\ m[at[t].q] = Fresh /\ m' = [m EXCEPT ![at[t].q].live = TRUE]
        BY <1>0, <1>3, <2>2 DEF publishModernRequest, Untouched, Starting, Forwarding
      <3>2. m' \in [Request -> Record]
        BY <1>0, <3>1 DEF Record
      <3>3. \A q \in Request : q # at[t].q => m'[q] = m[q]
        BY <1>0, <3>1
      <3>4. ~m'[at[t].q].ended /\ ~m'[at[t].q].written
        BY <1>0, <3>1 DEF Fresh, Record
      <3> QED
        BY <1>3, <2>2, <3>2, <3>3, <3>4 DEF RecordMoves
    <2> QED
      BY <2>1, <2>2
  <1>4. ASSUME NEW t \in Reader, Written(t) PROVE m' \in [Request -> Record] /\ \A q \in Request : RecordMoves(q)
    <2>1. at[t].q \in Request /\ m' = [m EXCEPT ![at[t].q].written = TRUE]
      BY <1>0, <1>4 DEF Written, Forwarding
    <2> QED
      BY <1>0, <1>4, <2>1 DEF RecordMoves, Record
  <1>5. ASSUME NEW t \in Reader, WriteFails(t) PROVE m' \in [Request -> Record] /\ \A q \in Request : RecordMoves(q)
    <2>1. CASE UNCHANGED m \/ \E Q : finishModernRequest(Q)
      BY <1>1, <1>2, <2>1
    <2>2. CASE at[t].q \notin tracked /\ m' = [m EXCEPT ![at[t].q].written = isModern]
      <3>1. at[t].q \in Request /\ ~m[at[t].q].live /\ isModern \in BOOLEAN
        BY <1>0, <1>5, <2>2 DEF WriteFails, Forwarding, Records, isModern
      <3> QED
        BY <1>0, <2>2, <3>1 DEF RecordMoves, Record
    <2> QED
      BY <1>5, <2>1, <2>2 DEF WriteFails
  <1>6. CASE handleModernUpstreamNotification
    <2>1. CASE UNCHANGED m \/ \E Q : finishModernRequest(Q)
      BY <1>1, <1>2, <2>1
    <2>2. CASE m' = [m EXCEPT ![up.q].acked = @ \/ up.do = "ack"] /\ up.q \in Request
      <3>1. (m[up.q].acked \/ up.do = "ack") \in BOOLEAN
        BY <1>0
      <3> QED
        BY <1>0, <2>2, <3>1 DEF RecordMoves, Record
    <2> QED
      BY <1>0, <1>6, <2>1, <2>2
      DEF handleModernUpstreamNotification, TaskTypes, RoutingTypeOK
  <1> QED
    BY ZenonT(40), <1>1, <1>2, <1>3, <1>4, <1>5, <1>6, NotifFrame
    DEF Next, NotifStep, Replay, Forward, Dispatch, Handler, ForwardQueued, ExpireDemand,
        CancelQueued, CancelLegacy, CancelModern, Respond, ModernNote, WatchdogClaims,
        WatchdogAnswers, DeliverDrained, ReaderStep, PublishLegacy, NoUpstream, TrackRequest,
        WriteLine, CancelEnds, CancelTells, UpstreamStep, ClaimResponse, DeliverResponse,
        handleModernUpstreamResponse, Leave, Unlink, Detach, Break, Die, Drain, Replace, vars

\* A task of a session is in its last stages only after the session was unlinked.
LEMMA Detaching ==
  ASSUME RoutingInv, [Next]_vars, NEW q \in Request, m[q].live, m'[q].live,
         From[q] \in linked \/ at[From[q]].do = "detach"
  PROVE  From[q] \in linked' \/ at'[From[q]].do = "detach"
  <1>0. RoutingTypeOK /\ TaskTypes /\ Records /\ From[q] \in Session /\ From[q] \in Reader
    BY Readers DEF RoutingInv
  <1>1. ASSUME NEW s \in Session, Unlink(s) PROVE From[q] \in linked' \/ at'[From[q]].do = "detach"
    <2>1. linked' = linked \ {s} /\ Go(s, "detach", NoRequest) /\ s \in Reader
      BY <1>1, Readers DEF Unlink
    <2>2. at'[s].do = "detach" /\ \A u \in Reader : u # s => at'[u] = at[u]
      BY <1>0, <2>1, GoMoves DEF Forwarding
    <2> QED
      BY <1>0, <2>1, <2>2
  <1>2. ASSUME NEW s \in Session, Detach(s) PROVE From[q] \in linked' \/ at'[From[q]].do = "detach"
    <2>1. /\ linked' = linked /\ Go(s, "gone", NoRequest) /\ s \in Reader
          /\ finishModernRequest({r \in asked : From[r] = s})
      BY <1>2, Readers DEF Detach
    <2>2. q \in asked
      BY <1>0 DEF Records, RoutingTypeOK
    <2>3. From[q] # s
      BY <1>0, <2>1, <2>2, Finishes
    <2>4. \A u \in Reader : u # s => at'[u] = at[u]
      BY <1>0, <2>1, GoMoves DEF Forwarding
    <2> QED
      BY <1>0, <2>1, <2>3, <2>4
  <1>3. CASE linked' = linked /\ ~ \E s \in Session : Detach(s)
    <2>1. CASE From[q] \in linked
      BY <1>3, <2>1
    <2>2. CASE at[From[q]].do = "detach"
      <3>1. ASSUME NEW r \in Request, Forward(r) \/ ForwardQueued(r) PROVE at'[From[q]] = at[From[q]]
        <4>1. UNCHANGED at \/ \E u \in Reader : at[u] = Idle /\ Go(u, "publish", r)
          BY <3>1, Readers DEF Forward, ForwardQueued, Unread
        <4>2. ASSUME NEW u \in Reader, at[u] = Idle, Go(u, "publish", r)
              PROVE  at'[From[q]] = at[From[q]]
          <5>1. u # From[q]
            BY <2>2, <4>2 DEF Idle
          <5> QED
            BY <1>0, <4>2, <5>1, GoMoves DEF Forwarding
        <4> QED
          BY <4>1, <4>2
      <3>2. CASE Onwards
        <4>1. CASE UNCHANGED at
          BY <2>2, <4>1
        <4>2. ASSUME NEW t \in Reader, NEW d \in Stage, NEW r \in Request \cup {NoRequest},
                     Go(t, d, r), t # From[q]
              PROVE  at'[From[q]] = at[From[q]]
          BY <1>0, <4>2, GoMoves DEF Stage
        <4> QED
          BY <1>3, <2>2, <3>2, <4>1, <4>2 DEF Onwards
      <3> QED
        BY <2>2, <3>1, <3>2, TaskMoves
    <2> QED
      BY <2>1, <2>2
  <1>4. linked' = linked \/ \E s \in Session : Unlink(s)
    BY ZenonT(40), NotifFrame
    DEF Next, NotifStep, Replay, Forward, Dispatch, Handler, ForwardQueued, ExpireDemand,
        CancelQueued, CancelLegacy, CancelModern, Respond, WatchdogClaims, WatchdogAnswers,
        DeliverDrained, ModernNote, ReaderStep, PublishLegacy, NoUpstream, TrackRequest,
        publishModernRequest, WriteLine, Written, WriteFails, CancelEnds, CancelTells, UpstreamStep,
        ClaimResponse, DeliverResponse, handleModernUpstreamResponse,
        handleModernUpstreamNotification, Leave, Detach, Break, Die, Drain, Replace, vars, hostVars
  <1> QED
    BY <1>1, <1>2, <1>3, <1>4

\* Who writes to the process.
LEMMA WhoWrites ==
  ASSUME [Next]_vars
  PROVE  /\ received \subseteq received'
         /\ (\E t \in Reader : CancelTells(t)) \/ told' = told
  BY ZenonT(40), NotifFrame
  DEF Next, NotifStep, Replay, Forward, Dispatch, Handler, ForwardQueued, ExpireDemand, CancelQueued,
      CancelLegacy, CancelModern, Respond, WatchdogClaims, WatchdogAnswers, DeliverDrained,
      ModernNote, ReaderStep, PublishLegacy, NoUpstream, TrackRequest, publishModernRequest,
      WriteLine, Written, WriteFails, CancelEnds, CancelTells, UpstreamStep, ClaimResponse,
      DeliverResponse, handleModernUpstreamResponse, handleModernUpstreamNotification, Leave,
      Unlink, Detach, Break, Die, Drain, Replace, vars, ghosts, frameVars

\* The table of tracked requests and the records change together.
LEMMA LiveStep ==
  ASSUME RoutingInv, [Next]_vars, NEW q \in Request
  PROVE  m'[q].live <=> isModern /\ q \in tracked'
  <1>0. /\ RoutingTypeOK /\ TaskTypes /\ Untouched /\ Records /\ ErasApart
        /\ m \in [Request -> Record] /\ (m[q].live <=> isModern /\ q \in tracked)
        /\ \A t \in Reader : at[t].do \in Forwarding => at[t].q \in Request
    BY DEF RoutingInv, RoutingTypeOK, Record, Records, TaskTypes
  <1>1. CASE ~isModern
    BY <1>0, <1>1, RecordStep DEF RecordMoves, publishModernRequest
  <1>2. CASE isModern /\ UNCHANGED <<m, tracked>>
    BY <1>0, <1>2
  <1>3. CASE \E Q : finishModernRequest(Q)
    BY <1>0, <1>3, Finishes DEF Ending
  <1>4. ASSUME isModern, NEW t \in Reader, publishModernRequest(t)
        PROVE  m'[q].live <=> isModern /\ q \in tracked'
    <2>1. CASE Publishable(at[t].q)
      <3>1. /\ at[t].q \in Request /\ m' = [m EXCEPT ![at[t].q].live = TRUE]
            /\ tracked' = tracked \cup {at[t].q}
        BY <1>0, <1>4, <2>1 DEF publishModernRequest, Forwarding
      <3>2. m'[at[t].q].live /\ \A r \in Request : r # at[t].q => m'[r] = m[r]
        BY <1>0, <3>1 DEF Record
      <3> QED
        BY <1>0, <1>4, <3>1, <3>2
    <2> QED
      BY <1>0, <1>4, <2>1 DEF publishModernRequest
  <1>5. ASSUME isModern, NEW t \in Reader, Written(t)
        PROVE  m'[q].live <=> isModern /\ q \in tracked'
    <2>1. at[t].q \in Request /\ m' = [m EXCEPT ![at[t].q].written = TRUE] /\ tracked' = tracked
      BY <1>0, <1>5 DEF Written, Forwarding, tables
    <2>2. m'[q].live = m[q].live
      BY <1>0, <2>1 DEF Record
    <2> QED
      BY <1>0, <2>1, <2>2
  <1>6. ASSUME isModern, NEW t \in Reader, WriteFails(t)
        PROVE  m'[q].live <=> isModern /\ q \in tracked'
    <2>1. CASE at[t].q \notin tracked
      <3>1. at[t].q \in Request /\ m' = [m EXCEPT ![at[t].q].written = isModern] /\ tracked' = tracked
        BY <1>0, <1>6, <2>1 DEF WriteFails, Forwarding
      <3>2. m'[q].live = m[q].live
        BY <1>0, <3>1 DEF Record
      <3> QED
        BY <1>0, <3>1, <3>2
    <2> QED
      BY <1>3, <1>6, <2>1 DEF WriteFails
  <1>7. CASE isModern /\ handleModernUpstreamNotification
    <2>1. CASE up.do # "cancelled" /\ Deliverable(up.q, up.do)
      <3>1. up.q \in Request /\ m' = [m EXCEPT ![up.q].acked = @ \/ up.do = "ack"] /\ tracked' = tracked
        BY <1>0, <1>7, <2>1 DEF handleModernUpstreamNotification, TaskTypes, RoutingTypeOK
      <3> QED
        BY <1>0, <3>1 DEF Record
    <2> QED
      BY <1>2, <1>3, <1>7, <2>1 DEF handleModernUpstreamNotification
  <1>8. ~ (isModern /\ (ClaimResponse \/ \E r \in Request : WatchdogClaims(r)))
    BY <1>0 DEF ErasApart, isModern, ClaimResponse, WatchdogClaims
  <1> QED
    BY ZenonT(40), <1>1, <1>2, <1>3, <1>4, <1>5, <1>6, <1>7, <1>8, NotifFrame
    DEF Next, NotifStep, Replay, Forward, Dispatch, Handler, ForwardQueued, ExpireDemand,
        CancelQueued, CancelLegacy, CancelModern, Respond, ModernNote, WatchdogAnswers,
        DeliverDrained, ReaderStep, PublishLegacy, NoUpstream, TrackRequest, WriteLine, CancelEnds,
        CancelTells, UpstreamStep, DeliverResponse, handleModernUpstreamResponse, Leave, Unlink,
        Detach, Break, Die, Drain, Replace, vars, tables, isModern

\* A record ends once, knows whether the process has its request, and ends with
\* its session.
LEMMA RecordsStep == ASSUME RoutingInv, [Next]_vars PROVE Records'
  <1>0. /\ RoutingTypeOK /\ TaskTypes /\ Records /\ asked \subseteq Request
        /\ received \subseteq received' /\ isModern' = isModern
    BY WhoWrites, SameEra DEF RoutingInv, RoutingTypeOK, isModern
  <1>1. ASSUME NEW q \in Request
        PROVE  /\ m'[q].live <=> isModern' /\ q \in tracked'
               /\ m'[q].live => ~m'[q].ended
               /\ m'[q].live /\ m'[q].written => q \in received'
               /\ m'[q].live => From[q] \in linked' \/ at'[From[q]].do = "detach"
    <2>1. RecordMoves(q)
      BY RecordStep
    <2>2. CASE ~m'[q].live
      BY <1>0, <2>2, LiveStep
    <2>3. CASE /\ m'[q].live /\ m[q].live /\ m'[q].ended = m[q].ended
               /\ m'[q].written = m[q].written \/ \E t \in Reader : Written(t) /\ at[t].q = q
      <3>1. m'[q].written => q \in received
        BY <1>0, <2>3 DEF Records, Written
      <3> QED
        BY <1>0, <2>3, <3>1, LiveStep, Detaching DEF Records
    <2>4. CASE /\ ~m'[q].ended /\ ~m'[q].written
               /\ \E t \in Reader : publishModernRequest(t) /\ Publishable(q)
      <3>1. From[q] \in linked'
        BY <2>4 DEF publishModernRequest, Publishable, modernSessionLive, hostVars
      <3> QED
        BY <1>0, <2>4, <3>1, LiveStep
    <2> QED
      BY <2>1, <2>2, <2>3, <2>4 DEF RecordMoves
  <1>2. ASSUME NEW t \in Reader, at'[t].do \in {"written", "tell"} PROVE at'[t].q \in received'
    <2>1. CASE at'[t] = at[t]
      BY <1>0, <1>2, <2>1 DEF Records
    <2>2. CASE WriteLine(t)
      <3>1. at[t].q \in Request /\ Go(t, IF isModern THEN "written" ELSE "idle", at[t].q)
        BY <1>0, <2>2 DEF WriteLine, TaskTypes, Forwarding
      <3>2. isModern /\ at'[t].q = at[t].q
        BY <1>0, <1>2, <3>1, GoMoves DEF Forwarding
      <3> QED
        BY <2>2, <3>2 DEF WriteLine
    <2>3. CASE CancelEnds(t)
      <3>1. at[t].q \in Request
        BY <1>0, <2>3 DEF CancelEnds, TaskTypes
      <3>2. CASE Go(t, "idle", at[t].q)
        BY <1>0, <1>2, <3>1, <3>2, GoMoves DEF Forwarding
      <3>3. CASE Go(t, "tell", at[t].q) /\ m[at[t].q].live /\ m[at[t].q].written
        BY <1>0, <3>1, <3>3, GoMoves DEF Forwarding, Records
      <3> QED
        BY <2>3, <3>2, <3>3 DEF CancelEnds
    <2>4. at'[t] = at[t] \/ WriteLine(t) \/ CancelEnds(t)
      <3>1. ASSUME NEW r \in Request, Forward(r) \/ ForwardQueued(r) PROVE at'[t] = at[t]
        <4>1. UNCHANGED at \/ \E u \in Reader : Go(u, "publish", r)
          BY <3>1, Readers DEF Forward, ForwardQueued
        <4> QED
          BY <1>0, <1>2, <4>1, GoMoves DEF Forwarding
      <3>2. ASSUME NEW u \in Reader, NEW d \in Stage, NEW r \in Request \cup {NoRequest},
                   Go(u, d, r), d = "written" => WriteLine(u), d = "tell" => CancelEnds(u)
            PROVE  at'[t] = at[t] \/ WriteLine(t) \/ CancelEnds(t)
        <4>1. at'[u].do = d /\ \A x \in Reader : x # u => at'[x] = at[x]
          BY <1>0, <3>2, GoMoves DEF Stage
        <4> QED
          BY <1>2, <3>2, <4>1
      <3> QED
        BY <3>1, <3>2, TaskMoves DEF Onwards
    <2> QED
      BY <2>1, <2>2, <2>3, <2>4
  <1> QED
    BY <1>1, <1>2 DEF Records

\* Frames about a modern request are written under its record's mutex.
LEMMA EndStep == ASSUME RoutingInv, [Next]_vars PROVE NothingAfterEnd'
  <1>0. NothingAfterEnd /\ Records /\ TaskTypes /\ asked \subseteq Request /\ isModern' = isModern
    BY SameEra DEF RoutingInv, RoutingTypeOK, isModern
  <1>1. stray' = {}
    <2>1. CASE handleModernUpstreamNotification
      <3>1. up.q \in Request
        BY <1>0, <2>1 DEF handleModernUpstreamNotification, TaskTypes
      <3> QED
        BY <1>0, <2>1, <3>1 DEF handleModernUpstreamNotification, Deliverable, NothingAfterEnd, Records
    <2> QED
      BY ZenonT(40), <1>0, <2>1, NotifFrame
      DEF NothingAfterEnd, Next, NotifStep, Replay, Forward, Dispatch, Handler, ForwardQueued,
          ExpireDemand, CancelQueued, CancelLegacy, CancelModern, Respond, WatchdogClaims,
          WatchdogAnswers, DeliverDrained, ModernNote, ReaderStep, PublishLegacy, NoUpstream,
          TrackRequest, publishModernRequest, WriteLine, Written, WriteFails, CancelEnds,
          CancelTells, UpstreamStep, ClaimResponse, DeliverResponse, handleModernUpstreamResponse,
          Leave, Unlink, Detach, Break, Die, Drain, Replace, vars, ghosts, frameVars
  <1>2. isModern => told' \subseteq received'
    BY <1>0, WhoWrites DEF NothingAfterEnd, CancelTells, Records
  <1> QED
    BY <1>0, <1>1, <1>2 DEF NothingAfterEnd

-----------------------------------------------------------------------------
\* Every table holds requests that were read.
Tables ==
  /\ asked \subseteq Request /\ queue \subseteq asked /\ tracked \subseteq asked
  /\ known \subseteq asked /\ tagged \subseteq asked /\ timedOut \subseteq asked
  /\ owes \subseteq asked /\ drained \subseteq asked /\ requestToTokens \subseteq asked
  /\ \A k \in DOMAIN progressOwners : progressOwners[k] \in asked /\ Token[progressOwners[k]] = k

\* Clearing tokens leaves tokens of requests that were read.
LEMMA ClearTokens ==
  ASSUME Tables, NEW Q, clearProgressTokens(Q)
  PROVE  /\ requestToTokens' \subseteq asked
         /\ \A k \in DOMAIN progressOwners' : progressOwners'[k] \in asked /\ Token[progressOwners'[k]] = k
  BY DEF Tables, clearProgressTokens, Restrict

\* A request enters a table after it was read.
LEMMA TablesStep == ASSUME RoutingInv, [Next]_vars PROVE Tables'
  <1>0. Tables /\ asked \subseteq asked'
    BY AskedGrows DEF RoutingInv, RoutingTypeOK, Tables
  <1>1. \A t \in Reader : at[t].do \in Forwarding => at[t].q \in asked
    BY DEF RoutingInv, TaskTypes
  <1>2. CASE UNCHANGED <<asked, queue, tracked, known, tagged, timedOut, owes, drained, tokenVars>>
    BY <1>0, <1>2 DEF Tables, tokenVars
  <1>3. CASE \E q \in Request : Replay(q) \/ Forward(q) \/ Dispatch(q)
    BY <1>0, <1>3 DEF Tables, Replay, Forward, Dispatch, tables, tokenVars, procVars
  <1>4. CASE \E q \in Request : ForwardQueued(q) \/ ExpireDemand(q) \/ CancelQueued(q)
    BY <1>0, <1>4 DEF Tables, ForwardQueued, ExpireDemand, CancelQueued, tables, tokenVars, procVars
  <1>5. CASE \E q \in Request : CancelLegacy(q)
    BY <1>0, <1>5, ClearTokens DEF CancelLegacy, Tables, hostVars
  <1>6. CASE \E q \in Request : Respond(q)
    BY <1>0, <1>6, ClearTokens DEF Respond, Tables, hostVars
  <1>7. CASE \E q \in Request : WatchdogClaims(q) \/ DeliverDrained(q) \/
                                 \E what \in {"progress", "ack", "event", "cancelled"} : ModernNote(q, what)
    BY <1>0, <1>7 DEF Tables, WatchdogClaims, DeliverDrained, ModernNote, hostVars, tables, tokenVars, procVars
  <1>8. ASSUME NEW q \in Request, WatchdogAnswers(q) PROVE Tables'
    <2>1. q \in asked
      BY <1>8 DEF RoutingInv, Untouched, WatchdogAnswers
    <2> QED
      BY <1>0, <1>8, <2>1 DEF Tables, WatchdogAnswers, hostVars, tokenVars, procVars
  <1>9. CASE \E t \in Reader : PublishLegacy(t)
    BY <1>0, <1>1, <1>9 DEF Tables, PublishLegacy, trackProgressToken, hostVars, Forwarding
  <1>10. CASE \E t \in Reader : TrackRequest(t) \/ publishModernRequest(t)
    BY <1>0, <1>1, <1>10
    DEF Tables, TrackRequest, publishModernRequest, hostVars, tokenVars, procVars, Forwarding
  <1>11. CASE \E t \in Reader : WriteLine(t) \/ CancelTells(t)
    BY <1>0, <1>1, <1>11 DEF Tables, WriteLine, CancelTells, hostVars, tables, tokenVars, Forwarding
  <1>12. CASE \E t \in Reader : WriteFails(t)
    <2>1. tracked' \subseteq tracked /\ known' \subseteq known /\ tagged' \subseteq tagged
      BY <1>12 DEF WriteFails, finishModernRequest, tokenVars
    <2>2. (\E Q : clearProgressTokens(Q)) \/ UNCHANGED tokenVars
      BY <1>12 DEF WriteFails, tokenVars
    <2> QED
      BY <1>0, <1>12, <2>1, <2>2, ClearTokens DEF WriteFails, Tables, hostVars, tokenVars, procVars
  <1>13. CASE \E t \in Reader : CancelEnds(t)
    BY <1>0, <1>13 DEF Tables, CancelEnds, finishModernRequest, hostVars, tokenVars, procVars
  <1>14. CASE ClaimResponse
    BY <1>0, <1>14, ClearTokens DEF Tables, ClaimResponse, hostVars, tokenVars, procVars
  <1>15. CASE handleModernUpstreamResponse \/ handleModernUpstreamNotification
    BY <1>0, <1>15
    DEF Tables, handleModernUpstreamResponse, handleModernUpstreamNotification,
        finishModernRequest, hostVars, tokenVars, procVars
  <1>16. CASE \E s \in Session : Unlink(s)
    BY <1>0, <1>16 DEF Tables, Unlink, Restrict, procVars
  <1>17. CASE \E s \in Session : Detach(s)
    BY <1>0, <1>17 DEF Tables, Detach, finishModernRequest, tokenVars, procVars
  <1>18. CASE Drain
    <2>1. /\ tracked' \subseteq tracked /\ known' \subseteq known /\ tagged' \subseteq tagged
          /\ timedOut' \subseteq timedOut
      BY <1>18 DEF Drain, finishModernRequest
    <2>2. (\E Q : clearProgressTokens(Q)) \/ UNCHANGED tokenVars
      BY <1>18 DEF Drain, tokenVars
    <2>3. drained' \subseteq asked /\ owes' = {} /\ UNCHANGED <<asked, queue>>
      BY <1>0, <1>18 DEF Drain, Ending, Tables, hostVars
    <2> QED
      BY <1>0, <2>1, <2>2, <2>3, ClearTokens DEF Tables, tokenVars
  <1> QED
    BY <1>2, <1>3, <1>4, <1>5, <1>6, <1>7, <1>8, <1>9, <1>10, <1>11, <1>12, <1>13, <1>14, <1>15,
       <1>16, <1>17, <1>18, NotifFrame
    DEF Next, NotifStep, Handler, CancelModern, ReaderStep, NoUpstream, Written, UpstreamStep,
        DeliverResponse, Leave, Break, Die, Replace, vars, hostVars, tables, procVars

-----------------------------------------------------------------------------
(* Who answers: a step hands the duty to answer a request on, discharges   *)
(* it with a reply, or drops it.                                           *)

NoNewDuty(q) ==
  /\ replies'[q] = replies[q]
  /\ Starting(q)' => Starting(q)
  /\ q \in tracked' => q \in tracked
  /\ (up.do = "deliver" /\ up.q = q)' => (up.do = "deliver" /\ up.q = q)
  /\ watch'[q] = "claimed" => watch[q] = "claimed"
  /\ q \in drained' => q \in drained
  /\ run'[q] = "handling" => run[q] = "handling"

\* Without a new duty there are at most as many as before.
LEMMA FewerDuties ==
  ASSUME TaskTypes, TaskTypes', NEW q \in Request, NoNewDuty(q)
  PROVE  Duties(q)' <= Duties(q)
  <1>1. replies[q] \in Nat /\ replies'[q] \in Nat
    BY DEF TaskTypes
  <1> QED
    BY <1>1 DEF NoNewDuty, Duties, One

\* The request of a task that leaves publishing is not started any more.
LEMMA PublishEnds ==
  ASSUME RoutingInv, NEW t \in Reader, at[t].do = "publish", queue' \subseteq queue,
         NEW d \in Stage \ {"publish"}, NEW q \in Request \cup {NoRequest}, Go(t, d, q),
         NEW r, r = at[t].q
  PROVE  r \in Request /\ r \in asked /\ Starting(r) /\ ~Starting(r)'
  <1>1. at'[t].do # "publish" /\ \A u \in Reader : u # t => at'[u] = at[u]
    <2>1. TaskTypes
      BY DEF RoutingInv
    <2> QED
      BY <2>1, GoMoves DEF Stage
  <1>2. at[t].q \in asked /\ asked \subseteq Request /\ OneForwarder
    BY DEF RoutingInv, TaskTypes, RoutingTypeOK, Forwarding
  <1> QED
    BY <1>1, <1>2 DEF Starting, OneForwarder, Forwarding

\* A request that is taken out of the queue is not started any more.
LEMMA QueueEnds ==
  ASSUME RoutingInv, NEW q \in queue, queue' = queue \ {q}, UNCHANGED at
  PROVE  Starting(q) /\ ~Starting(q)' /\ q \in asked
  BY DEF RoutingInv, OneForwarder, Starting, RoutingTypeOK, Forwarding

\* Only what is read anew is started anew.
LEMMA StartKept ==
  ASSUME RoutingInv, [Next]_vars, NEW q \in Request, q \in asked \/ q \notin asked'
  PROVE  Starting(q)' => Starting(q)
  <1>1. Starting(q)' => q \in asked'
    BY TaskStep, TablesStep DEF Starting, TaskTypes, Tables, Forwarding
  <1> QED
    BY <1>1, StartsFresh

\* One duty at most: with each way a request can go.
LEMMA DutyStep == ASSUME RoutingInv, [Next]_vars PROVE OneDuty'
  <1>0. /\ RoutingTypeOK /\ TaskTypes /\ TaskTypes' /\ Untouched /\ Records /\ OneDuty
        /\ asked \subseteq asked' /\ asked \subseteq Request
        /\ \A q \in Request : replies[q] \in Nat /\ replies'[q] \in Nat
        /\ \A q \in Request : q \in asked \/ q \notin asked' => (Starting(q)' => Starting(q))
    BY AskedGrows, TaskStep, StartKept DEF RoutingInv, RoutingTypeOK, TaskTypes
  <1>a. SUFFICES ASSUME NEW q \in Request
                 PROVE  \/ Duties(q)' <= Duties(q)
                        \/ q \in asked' \ asked /\ Duties(q)' <= 1
    BY <1>0 DEF OneDuty, Duties, One
  <1>b. Duties(q) <= 1 /\ (q \notin asked => Duties(q) = 0)
    BY <1>0 DEF OneDuty
  <1>c. q \in asked \/ q \notin asked' => (Starting(q)' => Starting(q))
    BY <1>0
  <1>d. ASSUME NoNewDuty(q) PROVE Duties(q)' <= Duties(q)
    BY <1>0, <1>d, FewerDuties
  <1>1. ASSUME UNCHANGED <<asked, replies, tracked, up, watch, drained, run>>
        PROVE  Duties(q)' <= Duties(q)
    BY <1>1, <1>c, <1>d DEF NoNewDuty
  <1> DEFINE Kept == Duties(q)' <= Duties(q) \/ (q \in asked' \ asked /\ Duties(q)' <= 1)
             Rest == UNCHANGED <<up, watch, drained, run>>
  <1>2. ASSUME NEW r \in Request, Replay(r) \/ Forward(r) \/ Dispatch(r) PROVE Kept
    <2>1. /\ r \notin asked /\ asked' = asked \cup {r}
          /\ UNCHANGED <<tracked, up, watch, drained>>
      BY <1>2 DEF Replay, Forward, Dispatch, Unread, tables, taskVars, procVars
    <2>2. CASE q # r
      <3>1. UNCHANGED replies \/ Reply({r})
        BY <1>2 DEF Replay, Forward, Dispatch, ghosts
      <3>2. replies'[q] = replies[q]
        BY <1>0, <2>2, <3>1, ReplyCounts
      <3>3. run'[q] = run[q]
        BY <1>0, <1>2, <2>2 DEF Replay, Forward, Dispatch, taskVars, RoutingTypeOK
      <3> QED
        BY <1>c, <1>d, <2>1, <2>2, <3>2, <3>3 DEF NoNewDuty
    <2>3. CASE q = r
      <3>1. /\ replies[q] = 0 /\ ~Starting(q) /\ q \notin tracked /\ ~(up.do = "deliver" /\ up.q = q)
            /\ watch[q] # "claimed" /\ q \notin drained /\ run[q] # "handling"
        BY <1>0, <1>b, <2>1, <2>3 DEF Duties, One
      <3>2. CASE Replay(r) \/ Dispatch(r)
        <4>1. UNCHANGED <<at, queue>>
          BY <3>2 DEF Replay, Dispatch, taskVars
        <4>2. ~Starting(q)'
          BY <3>1, <4>1 DEF Starting
        <4>3. \/ Reply({q}) /\ run' = run
              \/ UNCHANGED replies
          BY <2>3, <3>2 DEF Replay, Dispatch, taskVars
        <4>4. \/ replies'[q] <= 1 /\ run'[q] # "handling"
              \/ replies'[q] = 0
          BY <1>0, <3>1, <4>3, ReplyCounts
        <4> QED
          BY <1>0, <2>1, <2>3, <3>1, <4>2, <4>4 DEF Duties, One
      <3>3. CASE Forward(r)
        BY <1>0, <2>1, <2>3, <3>1, <3>3 DEF Forward, ghosts, Duties, One
      <3> QED
        BY <1>2, <3>2, <3>3
    <2> QED
      BY <2>2, <2>3
  <1>3. ASSUME NEW r \in Request, Handler(r) PROVE Kept
    <2>0. /\ UNCHANGED <<asked, tracked, up, watch, drained>>
          /\ run[r] = "handling" => run'[r] = "returned"
          /\ run[r] # "handling" => run'[r] = "off" /\ UNCHANGED replies
          /\ \A x \in Request : x # r => run'[x] = run[x]
      BY <1>0, <1>3 DEF Handler, hostVars, procVars, ghosts, RoutingTypeOK
    <2>1. CASE q # r \/ run[r] # "handling"
      <3>1. UNCHANGED replies \/ \E A \in SUBSET {r} : Reply(A)
        BY <1>3 DEF Handler, ghosts
      <3>2. replies'[q] = replies[q]
        BY <1>0, <2>0, <2>1, <3>1, ReplyCounts
      <3> QED
        BY <1>c, <1>d, <2>0, <2>1, <3>2 DEF NoNewDuty
    <2>2. CASE q = r /\ run[r] = "handling"
      <3>1. \E A : Reply(A)
        BY <1>3, <2>2 DEF Handler
      <3>2. replies'[q] <= replies[q] + 1
        BY <1>0, <3>1, ReplyCounts
      <3> QED
        BY <1>0, <1>c, <2>0, <2>2, <3>2 DEF Duties, One
    <2> QED
      BY <2>1, <2>2
  <1>4. ASSUME NEW r \in Request, ExpireDemand(r) \/ CancelQueued(r) PROVE Kept
    <2>1. /\ UNCHANGED <<asked, tracked, up, watch, drained, run>>
          /\ Starting(r) /\ ~Starting(r)'
          /\ UNCHANGED replies \/ Reply({r})
      BY <1>4, QueueEnds DEF ExpireDemand, CancelQueued, tables, taskVars, procVars, ghosts
    <2>2. CASE q # r
      BY <1>0, <1>c, <1>d, <2>1, <2>2, ReplyCounts DEF NoNewDuty
    <2>3. CASE q = r
      <3>1. replies'[q] <= replies[q] + 1
        BY <1>0, <2>1, ReplyCounts
      <3> QED
        BY <1>0, <2>1, <2>3, <3>1 DEF Duties, One
    <2> QED
      BY <2>2, <2>3
  <1>5. ASSUME NEW t \in Reader, PublishLegacy(t) \/ NoUpstream(t) \/ publishModernRequest(t)
        PROVE  Kept
    <2> DEFINE r == at[t].q
    <2>1. UNCHANGED <<asked, queue, up, watch, drained, run>> /\ at[t].do = "publish"
      BY <1>5 DEF PublishLegacy, NoUpstream, publishModernRequest, hostVars, procVars
    <2>2. \E d \in Stage \ {"publish"}, x \in Request \cup {NoRequest} : Go(t, d, x)
      BY <1>0, <1>5 DEF PublishLegacy, NoUpstream, publishModernRequest, Stage, Forwarding, TaskTypes
    <2>3. q = r => Starting(q) /\ ~Starting(q)'
      BY <2>1, <2>2, PublishEnds
    <2>4. \/ UNCHANGED replies /\ tracked' = tracked \cup {r}
          \/ Reply({r}) /\ tracked' = tracked
      BY <1>5 DEF PublishLegacy, NoUpstream, publishModernRequest, ghosts, tables
    <2>5. CASE q # r
      BY <1>0, <1>c, <1>d, <2>1, <2>4, <2>5, ReplyCounts DEF NoNewDuty
    <2>6. CASE q = r
      <3>1. \/ replies'[q] = replies[q]
            \/ replies'[q] <= replies[q] + 1 /\ tracked' = tracked
        BY <1>0, <2>4, ReplyCounts
      <3> QED
        BY <1>0, <2>1, <2>3, <2>6, <3>1 DEF Duties, One
    <2> QED
      BY <2>5, <2>6
  <1>6. ASSUME Rest, asked' = asked, NEW r \in Request,
               \/ r \in tracked /\ r \notin tracked' /\ tracked' \subseteq tracked /\ Reply({r})
               \/ tracked' \subseteq tracked /\ UNCHANGED replies
        PROVE  Kept
    <2>1. CASE q # r \/ UNCHANGED replies
      BY <1>0, <1>6, <1>c, <1>d, <2>1, ReplyCounts DEF NoNewDuty
    <2>2. CASE q = r /\ ~UNCHANGED replies
      <3>1. q \in tracked /\ q \notin tracked' /\ replies'[q] <= replies[q] + 1
        BY <1>0, <1>6, <2>2, ReplyCounts
      <3> QED
        BY <1>0, <1>6, <1>c, <3>1 DEF Duties, One
    <2> QED
      BY <2>1, <2>2
  <1>7. ASSUME NEW t \in Reader, WriteFails(t) PROVE Kept
    <2>1. at[t].q \in Request /\ Rest /\ asked' = asked
      BY <1>0, <1>7 DEF WriteFails, TaskTypes, Forwarding, hostVars, procVars
    <2>2. CASE at[t].q \notin tracked
      BY <1>6, <1>7, <2>1, <2>2 DEF WriteFails
    <2>3. CASE at[t].q \in tracked
      <3>1. Reply({at[t].q}) /\ (tracked' = tracked \ {at[t].q} \/ (isModern /\ finishModernRequest({at[t].q})))
        BY <1>7, <2>3 DEF WriteFails
      <3>2. isModern => m[at[t].q].live
        BY <1>0, <2>1, <2>3 DEF Records
      <3>3. tracked' = tracked \ {at[t].q}
        BY <1>0, <3>1, <3>2, Finishes DEF Ending
      <3> QED
        BY <1>6, <2>1, <2>3, <3>1, <3>3
    <2> QED
      BY <2>2, <2>3
  <1>8. CASE ClaimResponse
    <2>1. /\ UNCHANGED <<asked, replies, watch, drained, run>> /\ up.do = "claim"
          /\ \/ tracked' = tracked /\ up'.do = "idle"
             \/ up.q \in tracked /\ tracked' = tracked \ {up.q} /\ up'.do = "deliver" /\ up'.q = up.q
      BY <1>8 DEF ClaimResponse, hostVars, procVars, ghosts, Idle
    <2>2. CASE up'.do = "deliver" /\ q = up.q
      BY <1>0, <1>c, <2>1, <2>2 DEF Duties, One
    <2>3. CASE ~(up'.do = "deliver" /\ q = up.q)
      BY <1>c, <1>d, <2>1, <2>3 DEF NoNewDuty
    <2> QED
      BY <2>2, <2>3
  <1>9. CASE DeliverResponse
    <2>1. /\ UNCHANGED <<asked, tracked, watch, drained, run>> /\ up.do = "deliver" /\ up'.do = "idle"
          /\ \E Q \in SUBSET {up.q} : Reply(Q)
      BY <1>9 DEF DeliverResponse, hostVars, tables, procVars, Idle
    <2>2. CASE q = up.q
      <3>1. replies'[q] <= replies[q] + 1
        BY <1>0, <2>1, ReplyCounts
      <3> QED
        BY <1>0, <1>c, <2>1, <2>2, <3>1 DEF Duties, One
    <2>3. CASE q # up.q
      <3>1. replies'[q] = replies[q]
        BY <1>0, <2>1, <2>3, ReplyCounts
      <3> QED
        BY <1>c, <1>d, <2>1, <3>1 DEF NoNewDuty
    <2> QED
      BY <2>2, <2>3
  <1>10. CASE handleModernUpstreamResponse \/ handleModernUpstreamNotification
    <2>1. /\ UNCHANGED <<asked, watch, drained, run>> /\ up.q \in Request
          /\ up'.do = "idle" /\ up.do # "deliver"
      BY <1>0, <1>10
      DEF handleModernUpstreamResponse, handleModernUpstreamNotification, hostVars, procVars,
          TaskTypes, Idle
    <2>2. \/ UNCHANGED <<tracked, replies>>
          \/ finishModernRequest({up.q}) /\ \E Q \in SUBSET ({up.q} \cap {r \in Request : m[r].live}) : Reply(Q)
      BY <1>10, <2>1
      DEF handleModernUpstreamResponse, handleModernUpstreamNotification, Deliverable
    <2>3. /\ tracked' \subseteq tracked
          /\ \/ replies'[q] = replies[q]
             \/ q \in tracked /\ q \notin tracked' /\ replies'[q] <= replies[q] + 1
      <3>1. CASE UNCHANGED <<tracked, replies>>
        BY <3>1
      <3>2. ASSUME finishModernRequest({up.q}),
                   NEW Q \in SUBSET ({up.q} \cap {r \in Request : m[r].live}), Reply(Q)
            PROVE  <2>3
        <4>1. tracked' = tracked \ Ending({up.q})
          BY <1>0, <3>2, Finishes
        <4>2. CASE q \in Q
          BY <1>0, <3>2, <4>1, <4>2, ReplyCounts DEF Ending, Records
        <4>3. CASE q \notin Q
          BY <1>0, <3>2, <4>1, <4>3, ReplyCounts
        <4> QED
          BY <4>2, <4>3
      <3> QED
        BY <2>2, <3>1, <3>2
    <2>4. CASE replies'[q] = replies[q]
      BY <1>c, <1>d, <2>1, <2>3, <2>4 DEF NoNewDuty
    <2>5. CASE q \in tracked /\ q \notin tracked' /\ replies'[q] <= replies[q] + 1
      BY <1>0, <1>c, <2>1, <2>5 DEF Duties, One
    <2> QED
      BY <2>3, <2>4, <2>5
  <1>11. ASSUME NEW r \in Request, WatchdogClaims(r) \/ WatchdogAnswers(r) PROVE Kept
    <2>0. watch \in [Request -> {"off", "armed", "claimed"}]
      BY <1>0 DEF RoutingTypeOK
    <2>1. CASE WatchdogClaims(r)
      <3>1. /\ UNCHANGED <<asked, replies, up, drained, run>>
            /\ tracked' = tracked \ {r} /\ watch[r] = "armed"
            /\ watch' = [watch EXCEPT ![r] = IF r \in tracked THEN "claimed" ELSE "off"]
        BY <2>1 DEF WatchdogClaims, hostVars, procVars, ghosts
      <3>2. CASE q # r \/ r \notin tracked
        BY <1>c, <1>d, <2>0, <3>1, <3>2 DEF NoNewDuty
      <3>3. CASE q = r /\ r \in tracked
        BY <1>0, <1>c, <2>0, <3>1, <3>3 DEF Duties, One
      <3> QED
        BY <3>2, <3>3
    <2>2. CASE WatchdogAnswers(r)
      <3>1. /\ UNCHANGED <<asked, tracked, up, drained, run>> /\ Reply({r})
            /\ watch[r] = "claimed" /\ watch' = [watch EXCEPT ![r] = "off"]
        BY <2>2 DEF WatchdogAnswers, hostVars, procVars
      <3>2. CASE q # r
        BY <1>0, <1>c, <1>d, <2>0, <3>1, <3>2, ReplyCounts DEF NoNewDuty
      <3>3. CASE q = r
        <4>1. replies'[q] <= replies[q] + 1
          BY <1>0, <3>1, ReplyCounts
        <4>2. watch[q] = "claimed" /\ watch'[q] # "claimed"
          BY <2>0, <3>1, <3>3
        <4> QED
          BY <1>0, <1>c, <3>1, <4>1, <4>2 DEF Duties, One
      <3> QED
        BY <3>2, <3>3
    <2> QED
      BY <1>11, <2>1, <2>2
  <1>12. CASE Drain
    <2>1. UNCHANGED <<asked, replies, up, watch, run>>
      BY <1>12 DEF Drain, hostVars, taskVars, ghosts
    <2>2. /\ tracked' \subseteq tracked
          /\ q \in drained' => q \in drained \/ (q \in tracked /\ q \notin tracked')
      <3>1. CASE isModern
        <4> DEFINE Q == Ending({x \in asked : proc[x] = process.gen})
        <4>1. finishModernRequest(Q) /\ drained' \subseteq drained \cup Q
          BY <1>12, <3>1 DEF Drain
        <4>2. tracked' = tracked \ Ending(Q)
          BY <4>1, <1>0, Finishes
        <4>3. Ending(Q) = Q
          BY DEF Ending
        <4>4. q \in Q => q \in tracked
          BY <1>0 DEF Records, Ending
        <4> HIDE DEF Q
        <4> QED
          BY <4>1, <4>2, <4>3, <4>4
      <3>2. CASE ~isModern
        BY <1>12, <3>2 DEF Drain
      <3> QED
        BY <3>1, <3>2
    <2>3. CASE q \in drained' => q \in drained
      BY <1>c, <1>d, <2>1, <2>2, <2>3 DEF NoNewDuty
    <2>4. CASE q \in drained' /\ q \notin drained
      BY <1>0, <1>c, <2>1, <2>2, <2>4 DEF Duties, One
    <2> QED
      BY <2>3, <2>4
  <1>13. ASSUME NEW r \in Request, DeliverDrained(r) PROVE Kept
    <2>1. /\ UNCHANGED <<asked, tracked, up, watch, run>> /\ Reply({r})
          /\ r \in drained /\ drained' = drained \ {r}
      BY <1>13 DEF DeliverDrained, hostVars, tables, taskVars
    <2>2. CASE q # r
      BY <1>0, <1>c, <1>d, <2>1, <2>2, ReplyCounts DEF NoNewDuty
    <2>3. CASE q = r
      <3>1. replies'[q] <= replies[q] + 1
        BY <1>0, <2>1, ReplyCounts
      <3> QED
        BY <1>0, <1>c, <2>1, <2>3, <3>1 DEF Duties, One
    <2> QED
      BY <2>2, <2>3
  <1>14. CASE (\E t \in Reader : CancelEnds(t)) \/ \E s \in Session : Detach(s)
    <2>1. UNCHANGED <<asked, replies, up, watch, drained, run>> /\ tracked' \subseteq tracked
      BY <1>14 DEF CancelEnds, Detach, finishModernRequest, hostVars, procVars, ghosts
    <2> QED
      BY <1>c, <1>d, <2>1 DEF NoNewDuty
  <1>15. ASSUME NEW t \in Reader, TrackRequest(t) PROVE Kept
    <2>1. UNCHANGED <<asked, replies, up, tracked, drained, run>>
      BY <1>15 DEF TrackRequest, hostVars, procVars, ghosts
    <2>2. watch'[q] = "claimed" => watch[q] = "claimed"
      BY <1>0, <1>15 DEF TrackRequest, RoutingTypeOK
    <2> QED
      BY <1>c, <1>d, <2>1, <2>2 DEF NoNewDuty
  <1>16. CASE \E r \in Request : Respond(r) \/
                 \E what \in {"progress", "ack", "event", "cancelled"} : ModernNote(r, what)
    <2>1. UNCHANGED <<asked, replies, tracked, watch, drained, run>> /\ up'.do # "deliver"
      BY <1>16 DEF Respond, ModernNote, Listening, Idle, hostVars, tables, procVars, ghosts
    <2> QED
      BY <1>c, <1>d, <2>1 DEF NoNewDuty
  <1>17. CASE UNCHANGED <<asked, replies, tracked, up, watch, drained, run>>
    BY <1>1, <1>17
  <1> QED
    BY <1>2, <1>3, <1>4, <1>5, <1>7, <1>8, <1>9, <1>10, <1>11, <1>12, <1>13, <1>14, <1>15, <1>16,
       <1>17, NotifFrame
    DEF Next, NotifStep, ForwardQueued, CancelLegacy, CancelModern, ReaderStep, WriteLine, Written,
        CancelTells, UpstreamStep, Leave, Unlink, Break, Die, Replace, vars, hostVars, tables,
        taskVars, procVars, ghosts

-----------------------------------------------------------------------------
(* The count of what is open.                                              *)

\* Taking a part out of a finite set, and putting a member in.
LEMMA Cards ==
  ASSUME NEW S \in SUBSET Request
  PROVE  /\ IsFiniteSet(S) /\ Cardinality(S) \in Nat /\ Cardinality(S) <= Cardinality(Request)
         /\ \A E \in SUBSET S : /\ Cardinality(E) \in Nat /\ Cardinality(E) <= Cardinality(S)
                                /\ Cardinality(S \ E) = Cardinality(S) - Cardinality(E)
         /\ \A q \in S : Cardinality(S) > 0 /\ Cardinality(S \ {q}) = Cardinality(S) - 1
         /\ \A q \in Request \ S : Cardinality(S \cup {q}) = Cardinality(S) + 1
  <1>1. IsFiniteSet(Request)
    BY RoutingAssumption
  <1>2. IsFiniteSet(S) /\ Cardinality(S) \in Nat /\ Cardinality(S) <= Cardinality(Request)
    BY <1>1, FS_Subset, FS_CardinalityType
  <1>3. ASSUME NEW E \in SUBSET S
        PROVE  /\ Cardinality(E) \in Nat /\ Cardinality(E) <= Cardinality(S)
               /\ Cardinality(S \ E) = Cardinality(S) - Cardinality(E)
    <2>1. S \cap E = E
      OBVIOUS
    <2>2. Cardinality(S \ E) = Cardinality(S) - Cardinality(S \cap E)
      BY <1>2, FS_Difference
    <2>3. IsFiniteSet(E) /\ Cardinality(E) <= Cardinality(S)
      BY <1>2, FS_Subset
    <2>4. Cardinality(E) \in Nat
      BY <2>3, FS_CardinalityType
    <2> QED
      BY <2>1, <2>2, <2>3, <2>4
  <1>4. ASSUME NEW q \in S PROVE Cardinality(S) > 0 /\ Cardinality(S \ {q}) = Cardinality(S) - 1
    <2>1. Cardinality({q}) = 1
      BY FS_Singleton
    <2> QED
      BY <1>2, <1>3, <2>1
  <1>5. ASSUME NEW q \in Request \ S PROVE Cardinality(S \cup {q}) = Cardinality(S) + 1
    BY <1>2, FS_AddElement
  <1> QED
    BY <1>2, <1>3, <1>4, <1>5

\* Every step counts what it opens and gives back what it closes, once.
LEMMA CountStep == ASSUME RoutingInv, [Next]_vars PROVE Counted'
  <1> DEFINE T == Cardinality(tracked)
             C == Cardinality(Claimed)
             R == Cardinality(Running)
  <1>0. /\ RoutingTypeOK /\ TaskTypes /\ Untouched /\ Records /\ OneDuty /\ Counted
        /\ tracked \in SUBSET Request /\ Claimed \in SUBSET Request /\ Running \in SUBSET Request
        /\ watch \in [Request -> {"off", "armed", "claimed"}]
        /\ run \in [Request -> {"off", "handling", "returned"}]
        /\ Slots \in Nat
    BY RoutingAssumption DEF RoutingInv, RoutingTypeOK, Claimed, Running
  <1>1. T \in Nat /\ C \in Nat /\ R \in Nat /\ pending = T + C + R /\ R <= Slots
    BY <1>0, Cards DEF Counted
  <1>2. ASSUME UNCHANGED watch PROVE Claimed' = Claimed
    BY <1>2 DEF Claimed
  <1>3. ASSUME UNCHANGED run PROVE Running' = Running
    BY <1>3 DEF Running
  <1>4. ASSUME UNCHANGED <<pending, tracked>>, Claimed' = Claimed, Running' = Running PROVE Counted'
    BY <1>0, <1>4 DEF Counted
  <1>5. ASSUME NEW E \in SUBSET tracked, tracked' = tracked \ E, decrementPending(Cardinality(E)),
               UNCHANGED <<watch, run>>
        PROVE  Counted'
    <2>1. /\ Cardinality(tracked') = T - Cardinality(E)
          /\ Cardinality(E) \in Nat /\ Cardinality(E) <= T
      BY <1>0, <1>5, Cards
    <2>2. Claimed' = Claimed /\ Running' = Running
      BY <1>2, <1>3, <1>5
    <2> QED
      BY <1>1, <1>5, <2>1, <2>2 DEF decrementPending, Counted
  <1>6. ASSUME NEW Q \in SUBSET Request, finishModernRequest(Q), UNCHANGED <<watch, run>>
        PROVE  Counted'
    <2>1. Ending(Q) \subseteq tracked
      BY <1>0 DEF Ending, Records
    <2> QED
      BY <1>5, <1>6, <2>1 DEF finishModernRequest
  <1>7. ASSUME NEW q \in tracked, tracked' = tracked \ {q}, decrementPending(1), UNCHANGED <<watch, run>>
        PROVE  Counted'
    <2>1. Cardinality({q}) = 1
      BY FS_Singleton
    <2> QED
      BY <1>5, <1>7, <2>1
  <1>8. ASSUME NEW q \in Request, q \notin tracked, tracked' = tracked \cup {q}, pending' = pending + 1,
               UNCHANGED <<watch, run>>
        PROVE  Counted'
    <2>1. Cardinality(tracked') = T + 1
      BY <1>0, <1>8, Cards
    <2>2. Claimed' = Claimed /\ Running' = Running
      BY <1>2, <1>3, <1>8
    <2> QED
      BY <1>1, <1>8, <2>1, <2>2 DEF Counted
  <1>9. ASSUME NEW q \in Request, Dispatch(q) PROVE Counted'
    <2>1. UNCHANGED <<tracked, watch>> /\ q \notin Running /\ Claimed' = Claimed
      BY <1>0, <1>2, <1>9 DEF Dispatch, Unread, Untouched, Running
    <2>2. CASE UNCHANGED <<run, pending>>
      BY <1>3, <1>4, <2>1, <2>2
    <2>3. CASE R < Slots /\ run' = [run EXCEPT ![q] = "handling"] /\ pending' = pending + 1
      <3>1. Running' = Running \cup {q}
        BY <1>0, <2>3 DEF Running
      <3>2. Cardinality(Running') = R + 1
        BY <1>0, <2>1, <3>1, Cards
      <3> QED
        BY <1>0, <1>1, <2>1, <2>3, <3>2 DEF Counted
    <2> QED
      BY <1>9, <2>2, <2>3 DEF Dispatch, Running
  <1>10. ASSUME NEW q \in Request, Handler(q) PROVE Counted'
    <2>1. UNCHANGED <<tracked, watch>> /\ Claimed' = Claimed
      BY <1>2, <1>10 DEF Handler
    <2>2. CASE run[q] = "handling" /\ run' = [run EXCEPT ![q] = "returned"] /\ UNCHANGED pending
      <3>1. Running' = Running
        BY <1>0, <2>2 DEF Running
      <3> QED
        BY <1>4, <2>1, <2>2, <3>1
    <2>3. CASE run[q] = "returned" /\ run' = [run EXCEPT ![q] = "off"] /\ decrementPending(1)
      <3>1. Running' = Running \ {q} /\ q \in Running
        BY <1>0, <2>3 DEF Running
      <3>2. Cardinality(Running') = R - 1 /\ R > 0
        BY <1>0, <3>1, Cards
      <3> QED
        BY <1>0, <1>1, <2>1, <2>3, <3>2 DEF Counted, decrementPending
    <2> QED
      BY <1>10, <2>2, <2>3 DEF Handler
  <1>11. ASSUME NEW t \in Reader, PublishLegacy(t) \/ publishModernRequest(t) PROVE Counted'
    <2>1. /\ at[t].do = "publish" /\ UNCHANGED <<watch, run>>
          /\ \/ tracked' = tracked \cup {at[t].q} /\ pending' = pending + 1
             \/ UNCHANGED <<tracked, pending>>
      BY <1>11 DEF PublishLegacy, publishModernRequest
    <2>2. at[t].q \in Request /\ Starting(at[t].q)
      BY <1>0, <2>1 DEF TaskTypes, RoutingTypeOK, Starting, Forwarding
    <2>3. at[t].q \notin tracked
      BY <1>0, <2>2 DEF OneDuty, Duties, One, TaskTypes
    <2> QED
      BY <1>2, <1>3, <1>4, <1>8, <2>1, <2>2, <2>3
  <1>12. ASSUME NEW t \in Reader, WriteFails(t) \/ CancelEnds(t) PROVE Counted'
    <2>1. UNCHANGED <<watch, run>> /\ {at[t].q} \in SUBSET Request
      BY <1>0, <1>12 DEF WriteFails, CancelEnds, TaskTypes, RoutingTypeOK, Forwarding
    <2>2. \/ at[t].q \in tracked /\ tracked' = tracked \ {at[t].q} /\ decrementPending(1)
          \/ finishModernRequest({at[t].q})
          \/ UNCHANGED <<tracked, pending>>
      BY <1>12 DEF WriteFails, CancelEnds
    <2> QED
      BY <1>2, <1>3, <1>4, <1>6, <1>7, <2>1, <2>2
  <1>13. CASE UpstreamStep
    <2>1. UNCHANGED <<watch, run>> /\ {up.q} \in SUBSET Request
      BY <1>0, <1>13
      DEF UpstreamStep, ClaimResponse, DeliverResponse, handleModernUpstreamResponse,
          handleModernUpstreamNotification, TaskTypes, RoutingTypeOK
    <2>2. \/ up.q \in tracked /\ tracked' = tracked \ {up.q} /\ decrementPending(1)
          \/ finishModernRequest({up.q})
          \/ UNCHANGED <<tracked, pending>>
      BY <1>13
      DEF UpstreamStep, ClaimResponse, DeliverResponse, handleModernUpstreamResponse,
          handleModernUpstreamNotification, tables
    <2> QED
      BY <1>2, <1>3, <1>4, <1>6, <1>7, <2>1, <2>2
  <1>14. ASSUME NEW q \in Request, WatchdogClaims(q) PROVE Counted'
    <2>1. /\ UNCHANGED <<pending, run>> /\ Running' = Running /\ watch[q] = "armed" /\ q \notin Claimed
          /\ watch' = [watch EXCEPT ![q] = IF q \in tracked THEN "claimed" ELSE "off"]
          /\ tracked' = tracked \ {q}
      BY <1>3, <1>14 DEF WatchdogClaims, Claimed
    <2>2. CASE q \in tracked
      <3>1. Claimed' = Claimed \cup {q}
        BY <1>0, <2>1, <2>2 DEF Claimed
      <3>2. Cardinality(Claimed') = C + 1
        BY <1>0, <2>1, <3>1, Cards
      <3>3. Cardinality(tracked') = T - 1
        BY <1>0, <2>1, <2>2, Cards
      <3> QED
        BY <1>1, <2>1, <3>2, <3>3 DEF Counted
    <2>3. CASE q \notin tracked
      <3>1. Claimed' = Claimed /\ tracked' = tracked
        BY <1>0, <2>1, <2>3 DEF Claimed
      <3> QED
        BY <1>4, <2>1, <3>1
    <2> QED
      BY <2>2, <2>3
  <1>15. ASSUME NEW q \in Request, WatchdogAnswers(q) PROVE Counted'
    <2>1. /\ UNCHANGED <<tracked, run>> /\ Running' = Running /\ decrementPending(1)
          /\ q \in Claimed /\ watch' = [watch EXCEPT ![q] = "off"]
      BY <1>3, <1>15 DEF WatchdogAnswers, Claimed
    <2>2. Claimed' = Claimed \ {q}
      BY <1>0, <2>1 DEF Claimed
    <2>3. Cardinality(Claimed') = C - 1 /\ C > 0
      BY <1>0, <2>1, <2>2, Cards
    <2> QED
      BY <1>1, <2>1, <2>3 DEF Counted, decrementPending
  <1>16. ASSUME NEW t \in Reader, TrackRequest(t) PROVE Counted'
    <2>1. UNCHANGED <<pending, tracked, run>> /\ watch[at[t].q] = "off"
      BY <1>0, <1>16 DEF TrackRequest, Untouched
    <2>2. Claimed' = Claimed
      BY <1>0, <1>16, <2>1 DEF TrackRequest, Claimed
    <2> QED
      BY <1>3, <1>4, <2>1, <2>2
  <1>17. ASSUME NEW s \in Session, Detach(s) PROVE Counted'
    <2>1. {q \in asked : From[q] = s} \in SUBSET Request
      BY <1>0 DEF RoutingTypeOK
    <2> QED
      BY <1>6, <1>17, <2>1 DEF Detach
  <1>18. CASE Drain
    <2>1. Ending({q \in asked : proc[q] = process.gen}) \in SUBSET Request /\ UNCHANGED <<watch, run>>
      BY <1>0, <1>18 DEF RoutingTypeOK, Ending, Drain, taskVars
    <2>2. known \cap tracked \in SUBSET tracked
      OBVIOUS
    <2> QED
      BY <1>5, <1>6, <1>18, <2>1, <2>2 DEF Drain
  <1>19. CASE UNCHANGED <<pending, tracked, watch, run>>
    BY <1>2, <1>3, <1>4, <1>19
  <1> QED
    BY <1>9, <1>10, <1>11, <1>12, <1>13, <1>14, <1>15, <1>16, <1>17, <1>18, <1>19, NotifFrame
    DEF Next, NotifStep, Replay, Forward, ForwardQueued, ExpireDemand, CancelQueued, CancelLegacy,
        CancelModern, Respond, ModernNote, DeliverDrained, ReaderStep, NoUpstream, WriteLine,
        Written, CancelTells, Leave, Unlink, Break, Die, Replace, vars, tables, taskVars

-----------------------------------------------------------------------------
(* Queued notifications.                                                   *)

Entry == Request \cup {NoRequest}
Sending == [do : {"idle", "offer", "drop", "push"}, to : Seq(Session), q : Entry]

\* A queue of entries that stays within its buffer.
Buffer == {b \in Seq(Entry) : Len(b) <= NotifCap}

\* A broadcast goes to sessions.
LEMMA Broadcasts == ASSUME RoutingTypeOK, NEW to \in SetToSeqs(linked) PROVE to \in Seq(Session)
  <1>1. linked \subseteq Session /\ IsFiniteSet(Session)
    BY RoutingAssumption DEF RoutingTypeOK
  <1>2. IsFiniteSet(linked)
    BY <1>1, FS_Subset
  <1>3. Cardinality(linked) \in Nat
    BY <1>2, FS_CardinalityType
  <1>4. to \in [1 .. Cardinality(linked) -> Session]
    BY <1>1 DEF SetToSeqs
  <1> QED
    BY <1>3, <1>4

\* A sender that goes on with a sequence of sessions.
LEMMA Sends ==
  ASSUME SendTypes, NEW p \in Sender, NEW to \in Seq(Session), NEW q \in Entry, Send(p, to, q)
  PROVE  /\ send' \in [Sender -> Sending]
         /\ \A x \in Sender : send'[x].do # "idle" => send'[x].to # <<>>
  <1>1. Silent \in Sending /\ Silent.do = "idle"
    BY DEF Silent, Sending, Entry
  <1>2. send \in [Sender -> Sending]
    BY DEF SendTypes, Sending, Entry
  <1>3. CASE to = <<>>
    BY <1>1, <1>2, <1>3 DEF Send, SendTypes
  <1>4. CASE to # <<>>
    <2>1. [do |-> "offer", to |-> to, q |-> q] \in Sending
      BY DEF Sending
    <2> QED
      BY <1>2, <1>4, <2>1 DEF Send, SendTypes
  <1> QED
    BY <1>3, <1>4

\* A queue takes an entry while it has room, and senders reach only sessions.
LEMMA SendsStep ==
  ASSUME RoutingInv, [Next]_vars
  PROVE  SendTypes' /\ \A s \in Session : chan'[s] \in Seq(Entry) /\ Len(chan'[s]) <= NotifCap
  <1>0. /\ RoutingTypeOK /\ TaskTypes /\ SendTypes /\ NotifCap \in Nat /\ asked \subseteq Request
        /\ chan \in [Session -> Buffer] /\ send \in [Sender -> Sending]
        /\ \A p \in Sender : send[p].do # "idle" => send[p].to # <<>>
    BY RoutingAssumption DEF RoutingInv, RoutingTypeOK, SendTypes, Buffer, Sending, Entry
  <1> DEFINE Good == chan' \in [Session -> Buffer] /\ send' \in [Sender -> Sending]
                       /\ \A p \in Sender : send'[p].do # "idle" => send'[p].to # <<>>
  <1>a. ASSUME NEW p \in Sender, send[p].do # "idle"
        PROVE  /\ Target(p) \in Session /\ Tail(send[p].to) \in Seq(Session) /\ send[p].q \in Entry
    BY <1>0, <1>a DEF Target, Sending
  <1>b. ASSUME NEW p \in Sender, send[p].do # "idle", NextTarget(p)
        PROVE  send' \in [Sender -> Sending] /\ \A x \in Sender : send'[x].do # "idle" => send'[x].to # <<>>
    BY <1>0, <1>a, <1>b, Sends DEF NextTarget
  <1>c. ASSUME NEW p \in Sender, send[p].do # "idle", Len(chan[Target(p)]) < NotifCap, Enqueue(p)
        PROVE  Good
    <2>1. Target(p) \in Session /\ send[p].q \in Entry
      BY <1>a, <1>c
    <2>2. Append(chan[Target(p)], send[p].q) \in Buffer
      BY <1>0, <1>c, <2>1 DEF Buffer
    <2>3. chan' \in [Session -> Buffer]
      BY <1>0, <1>c, <2>1, <2>2 DEF Enqueue
    <2> QED
      BY <1>b, <1>c, <2>3 DEF Enqueue
  <1>1. ASSUME NEW q \in Request, RouteProgress(q) \/ RouteCallback(q) PROVE Good
    <2>1. \E s \in Session, e \in Entry : Send("upstream", <<s>>, e)
      BY <1>0, <1>1 DEF RouteProgress, RouteCallback, RoutingTypeOK, Entry
    <2>2. PICK s \in Session, e \in Entry : Send("upstream", <<s>>, e)
      BY <2>1
    <2>3. <<s>> \in Seq(Session)
      OBVIOUS
    <2> QED
      BY <1>0, <1>1, <2>2, <2>3, Sends DEF RouteProgress, RouteCallback, Sender
  <1>2. ASSUME NEW to \in SetToSeqs(linked), Broadcast(to) \/ Notify(to) PROVE Good
    <2>1. to \in Seq(Session)
      BY <1>0, Broadcasts
    <2> QED
      BY <1>0, <1>2, <2>1, Sends DEF Broadcast, Notify, Sender, Entry
  <1>3. ASSUME NEW p \in Sender, Offer(p) PROVE Good
    <2>1. send[p].do = "offer"
      BY <1>3 DEF Offer
    <2>2. CASE NextTarget(p) /\ UNCHANGED chan
      BY <1>0, <1>b, <2>1, <2>2
    <2>3. CASE Len(chan[Target(p)]) < NotifCap /\ Enqueue(p)
      BY <1>c, <2>1, <2>3
    <2>4. CASE send' = [send EXCEPT ![p].do = "drop"] /\ UNCHANGED chan
      BY <1>0, <2>1, <2>4 DEF Sending
    <2> QED
      BY <1>3, <2>2, <2>3, <2>4 DEF Offer
  <1>4. ASSUME NEW p \in Sender, DropOldest(p) PROVE Good
    <2>1. /\ send[p].do = "drop" /\ send' = [send EXCEPT ![p].do = "push"]
          /\ chan' = [chan EXCEPT ![Target(p)] = IF @ = <<>> THEN @ ELSE Tail(@)]
      BY <1>4 DEF DropOldest
    <2>2. Target(p) \in Session
      BY <1>a, <2>1
    <2>3. (IF chan[Target(p)] = <<>> THEN chan[Target(p)] ELSE Tail(chan[Target(p)])) \in Buffer
      BY <1>0, <2>2 DEF Buffer
    <2>4. chan' \in [Session -> Buffer]
      BY <1>0, <2>1, <2>2, <2>3
    <2> QED
      BY <1>0, <2>1, <2>4 DEF Sending
  <1>5. ASSUME NEW p \in Sender, Push(p) PROVE Good
    BY <1>c, <1>5 DEF Push
  <1>6. ASSUME NEW s \in Session, DrainNotification(s) PROVE Good
    <2>1. Tail(chan[s]) \in Buffer
      BY <1>0, <1>6 DEF DrainNotification, Buffer
    <2> QED
      BY <1>0, <1>6, <2>1 DEF DrainNotification
  <1>7. ASSUME UNCHANGED <<chan, send>> PROVE Good
    BY <1>0, <1>7
  <1>8. Good
    BY ZenonT(40), <1>1, <1>2, <1>3, <1>4, <1>5, <1>6, <1>7
    DEF Next, SendStep, Replay, Forward, Dispatch, Handler, ForwardQueued, ExpireDemand,
        CancelQueued, CancelLegacy, CancelModern, Respond, ModernNote, WatchdogClaims,
        WatchdogAnswers, DeliverDrained, ReaderStep, PublishLegacy, NoUpstream, TrackRequest,
        publishModernRequest, WriteLine, Written, WriteFails, CancelEnds, CancelTells,
        UpstreamStep, ClaimResponse, DeliverResponse, handleModernUpstreamResponse,
        handleModernUpstreamNotification, Leave, Unlink, Detach, Break, Die, Drain, Replace,
        vars, notifVars
  <1> QED
    BY <1>8 DEF SendTypes, Buffer, Sending, Entry

-----------------------------------------------------------------------------
(* The type invariant and the whole invariant.                             *)

\* A count of requests of three kinds that exclude each other.
LEMMA Exclusive ==
  ASSUME NEW A \in SUBSET Request, NEW B \in SUBSET Request, NEW C \in SUBSET Request,
         A \cap B = {}, C = {} \/ (A = {} /\ B = {})
  PROVE  Cardinality(A) + Cardinality(B) + Cardinality(C) \in 0 .. Cardinality(Request)
  <1>0. IsFiniteSet(Request) /\ Cardinality({}) = 0
    BY RoutingAssumption, FS_EmptySet
  <1>1. IsFiniteSet(A) /\ IsFiniteSet(B)
    BY <1>0, FS_Subset
  <1>2. Cardinality(A \cup B) = Cardinality(A) + Cardinality(B) - Cardinality(A \cap B)
    BY <1>1, FS_Union
  <1>3. A \cup B \in SUBSET Request
    OBVIOUS
  <1>4. Cardinality(A) \in Nat /\ Cardinality(B) \in Nat /\ Cardinality(Request) \in Nat
        /\ Cardinality(A \cup B) <= Cardinality(Request)
    BY <1>0, <1>3, Cards, FS_CardinalityType
  <1>5. Cardinality(C) \in Nat /\ Cardinality(C) <= Cardinality(Request)
    BY Cards
  <1>6. CASE C = {}
    BY <1>0, <1>2, <1>4, <1>6
  <1>7. CASE A = {} /\ B = {}
    BY <1>0, <1>4, <1>5, <1>7
  <1> QED
    BY <1>6, <1>7

\* Tables, queues and counters stay within their types and bounds.
LEMMA TypeStep == ASSUME RoutingInv, [Next]_vars PROVE RoutingTypeOK'
  <1>0. /\ RoutingTypeOK /\ TaskTypes /\ era' = era
        /\ Tables' /\ Counted' /\ OneDuty' /\ ErasApart' /\ TaskTypes'
        /\ m' \in [Request -> Record]
        /\ \A s \in Session : chan'[s] \in Seq(Entry) /\ Len(chan'[s]) <= NotifCap
    BY SameEra, TablesStep, CountStep, DutyStep, EraStep, TaskStep, RecordStep, SendsStep DEF RoutingInv
  <1>1. era' \in Era /\ linked' \subseteq Session /\ drainer' \subseteq Session
    BY ZenonT(40), <1>0, NotifFrame
    DEF RoutingTypeOK, Next, NotifStep, RouteProgress, RouteCallback, Broadcast, Notify, SendStep,
        Offer, DropOldest, Push, DrainNotification, Replay, Forward, Dispatch, Handler,
        ForwardQueued, ExpireDemand, CancelQueued, CancelLegacy, CancelModern, Respond, ModernNote,
        WatchdogClaims, WatchdogAnswers, DeliverDrained, ReaderStep, PublishLegacy, NoUpstream,
        TrackRequest, publishModernRequest, WriteLine, Written, WriteFails, CancelEnds, CancelTells,
        UpstreamStep, ClaimResponse, DeliverResponse, handleModernUpstreamResponse,
        handleModernUpstreamNotification, Leave, Unlink, Detach, Break, Die, Drain, Replace,
        vars, hostVars, notifVars
  <1>2. conn' \in [Session -> {"open", "broken", "closed"}]
    <2>1. UNCHANGED conn \/ \E s \in Session : Leave(s) \/ Break(s)
      BY ZenonT(40), NotifFrame
      DEF Next, NotifStep, Replay, Forward, Dispatch, Handler, ForwardQueued, ExpireDemand,
          CancelQueued, CancelLegacy, CancelModern, Respond, ModernNote, WatchdogClaims,
          WatchdogAnswers, DeliverDrained, ReaderStep, PublishLegacy, NoUpstream, TrackRequest,
          publishModernRequest, WriteLine, Written, WriteFails, CancelEnds, CancelTells,
          UpstreamStep, ClaimResponse, DeliverResponse, handleModernUpstreamResponse,
          handleModernUpstreamNotification, Unlink, Detach, Die, Drain, Replace, vars, hostVars
    <2> QED
      BY <1>0, <2>1 DEF RoutingTypeOK, Leave, Break
  <1>3. cached' \in BOOLEAN
    <2>1. cached' \in {cached, FALSE, TRUE}
      <3>1. CASE UNCHANGED cached
        BY <3>1
      <3>2. CASE \E q \in Request : Respond(q)
        BY <3>2 DEF Respond
      <3>3. CASE ClaimResponse
        BY <3>3 DEF ClaimResponse
      <3>4. CASE \E to \in SetToSeqs(linked) : Broadcast(to)
        BY <3>4 DEF Broadcast
      <3> QED
        BY ZenonT(40), <3>1, <3>2, <3>3, <3>4
        DEF Next, RouteProgress, RouteCallback, Notify, SendStep, Offer, DropOldest, Push,
            DrainNotification, Replay, Forward, Dispatch, Handler, ForwardQueued, ExpireDemand,
            CancelQueued, CancelLegacy, CancelModern, ModernNote, WatchdogClaims, WatchdogAnswers,
            DeliverDrained, ReaderStep, PublishLegacy, NoUpstream, TrackRequest,
            publishModernRequest, WriteLine, Written, WriteFails, CancelEnds, CancelTells,
            UpstreamStep, DeliverResponse, handleModernUpstreamResponse,
            handleModernUpstreamNotification, Leave, Unlink, Detach, Break, Die, Drain, Replace, vars
    <2> QED
      BY <1>0, <2>1 DEF RoutingTypeOK
  <1>4. run' \in [Request -> {"off", "handling", "returned"}]
    <2>1. run' = run \/ \E q \in Request, d \in {"off", "handling", "returned"} :
                             run' = [run EXCEPT ![q] = d]
      BY WhoWatches DEF Dispatch, Handler
    <2> QED
      BY <1>0, <2>1 DEF RoutingTypeOK
  <1>5. watch' \in [Request -> {"off", "armed", "claimed"}]
    <2>1. watch' = watch \/ \E q : \E d \in {"off", "armed", "claimed"} : watch' = [watch EXCEPT ![q] = d]
      BY WhoWatches DEF TrackRequest, WatchdogClaims, WatchdogAnswers
    <2> QED
      BY <1>0, <2>1 DEF RoutingTypeOK
  <1>6. proc' \in [Request -> 0 .. MaxGen]
    <2>1. UNCHANGED proc \/ \E t \in Reader : PublishLegacy(t) \/ publishModernRequest(t)
      BY NotifFrame
      DEF Next, NotifStep, Replay, Forward, Dispatch, Handler, ForwardQueued, ExpireDemand,
          CancelQueued, CancelLegacy, CancelModern, Respond, ModernNote, WatchdogClaims,
          WatchdogAnswers, DeliverDrained, ReaderStep, NoUpstream, TrackRequest, WriteLine,
          Written, WriteFails, CancelEnds, CancelTells, UpstreamStep, ClaimResponse,
          DeliverResponse, handleModernUpstreamResponse, handleModernUpstreamNotification, Leave,
          Unlink, Detach, Break, Die, Drain, Replace, vars, procVars
    <2>2. process.gen \in 0 .. MaxGen
      BY <1>0, RoutingAssumption DEF RoutingTypeOK
    <2> QED
      BY <1>0, <2>1, <2>2 DEF RoutingTypeOK, PublishLegacy, publishModernRequest
  <1>7. events' \in 0 .. MaxEvents[era']
    <2>1. UNCHANGED events \/ Event
      BY ZenonT(40) DEF Next, RouteProgress, RouteCallback, Broadcast, Notify, SendStep, Offer, DropOldest, Push,
          DrainNotification, Replay, Forward, Dispatch, Handler, ForwardQueued, ExpireDemand,
          CancelQueued, CancelLegacy, CancelModern, Respond, ModernNote, WatchdogClaims,
          WatchdogAnswers, DeliverDrained, ReaderStep, PublishLegacy, NoUpstream, TrackRequest,
          publishModernRequest, WriteLine, Written, WriteFails, CancelEnds, CancelTells,
          UpstreamStep, ClaimResponse, DeliverResponse, handleModernUpstreamResponse,
          handleModernUpstreamNotification, Leave, Unlink, Detach, Break, Die, Drain, Replace, vars
    <2>2. MaxEvents[era] \in Nat
      BY <1>0, RoutingAssumption DEF RoutingTypeOK
    <2> QED
      BY <1>0, <2>1, <2>2 DEF RoutingTypeOK, Event
  <1>8. pending' \in 0 .. Cardinality(Request)
    <2>1. tracked' \in SUBSET Request /\ Claimed' \in SUBSET Request /\ Running' \in SUBSET Request
      BY <1>0 DEF Tables, Claimed, Running
    <2>2. ASSUME NEW q \in Request, q \in tracked', watch'[q] = "claimed" PROVE FALSE
      <3>1. Duties(q)' <= 1 /\ replies'[q] \in Nat
        BY <1>0 DEF OneDuty, TaskTypes
      <3> QED
        BY <2>2, <3>1 DEF Duties, One
    <2>3. tracked' \cap Claimed' = {}
      BY <2>1, <2>2 DEF Claimed
    <2>4. Running' = {} \/ (tracked' = {} /\ Claimed' = {})
      BY <1>0, <2>1 DEF ErasApart, Running, Claimed
    <2> QED
      BY <1>0, <2>1, <2>3, <2>4, Exclusive DEF Counted
  <1> QED
    BY <1>0, <1>1, <1>2, <1>3, <1>4, <1>5, <1>6, <1>7, <1>8
    DEF RoutingTypeOK, Tables, TaskTypes, Counted, Running, Record, Entry

\* An owner that has just accepted its sessions.
LEMMA RoutingStarts == RoutingInit => RoutingInv
  <1> SUFFICES ASSUME RoutingInit PROVE RoutingInv
    OBVIOUS
  <1>0. /\ Cardinality({}) = 0 /\ Cardinality(Request) \in Nat /\ Slots \in Nat /\ NotifCap \in Nat
        /\ 1 \in 1 .. MaxGen /\ 0 \in 0 .. MaxGen /\ MaxEvents[era] \in Nat
    BY RoutingAssumption, FS_EmptySet, FS_CardinalityType DEF RoutingInit
  <1>1. Claimed = {} /\ Running = {} /\ {q \in Request : run[q] # "off"} = {}
    BY DEF RoutingInit, Claimed, Running
  <1>2. RoutingTypeOK
    <2>1. m \in [Request -> Record]
      BY DEF RoutingInit, Fresh, Record
    <2>2. \A s \in Session : chan[s] = <<>> /\ <<>> \in Seq(Entry) /\ Len(<<>>) = 0
      BY DEF RoutingInit
    <2>3. DOMAIN progressOwners = {}
      BY DEF RoutingInit
    <2>4. process.gen = 1 /\ up.q = NoRequest
      BY DEF RoutingInit, Idle
    <2>5. cached \in BOOLEAN
      BY DEF RoutingInit
    <2>6. pending \in 0 .. Cardinality(Request) /\ events \in 0 .. MaxEvents[era]
      BY <1>0 DEF RoutingInit
    <2>9. 0 <= Slots /\ 0 <= NotifCap
      BY <1>0
    <2>10. Cardinality({q \in Request : run[q] # "off"}) = 0
      BY <1>0, <1>1
    <2>7. Cardinality({q \in Request : run[q] # "off"}) <= Slots
      BY <2>9, <2>10
    <2>8. \A s \in Session : Len(chan[s]) <= NotifCap /\ chan[s] \in Seq(Request \cup {NoRequest})
      BY <2>2, <2>9 DEF Entry
    <2> QED
      BY <1>0, <2>1, <2>3, <2>4, <2>5, <2>6, <2>7, <2>8 DEF RoutingInit, RoutingTypeOK, Record, Entry
  <1>3. TaskTypes
    BY <1>0 DEF RoutingInit, TaskTypes, Idle, Forwarding
  <1>4. SendTypes
    BY DEF RoutingInit, SendTypes, Silent, Sender
  <1>5. OneForwarder /\ ErasApart
    BY DEF RoutingInit, OneForwarder, ErasApart, Idle, Forwarding
  <1>6. \A q \in Request : ~Starting(q)
    BY DEF RoutingInit, Starting, Idle
  <1>7. Untouched /\ Records
    BY DEF RoutingInit, Untouched, Records, Idle, Fresh
  <1>8. OneDuty
    BY <1>6 DEF RoutingInit, OneDuty, Duties, One, Idle
  <1>9. Counted
    BY <1>0, <1>1 DEF Counted, RoutingInit
  <1> QED
    BY <1>2, <1>3, <1>4, <1>5, <1>7, <1>8, <1>9 DEF RoutingInv, NothingAfterEnd, RoutingInit

\* No step breaks the invariant.
LEMMA RoutingStep == RoutingInv /\ [Next]_vars => RoutingInv'
  BY TypeStep, TaskStep, SendsStep, ForwarderStep, UntouchedStep, EraStep, RecordsStep, DutyStep,
     CountStep, EndStep
  DEF RoutingInv

\* The invariant of routing holds in every state of an owner.
THEOREM RoutingInvariant == RoutingSpec => []RoutingInv
  BY RoutingStarts, RoutingStep, PTL DEF RoutingSpec

\* A host gets at most one terminal frame for a request, whoever of the
\* response, the watchdog, the loss of the process, a failed write, the native
\* handler and a cancellation comes first: each takes the duty to answer out of
\* one table before it writes.
THEOREM AnsweredAtMostOnce == RoutingSpec => []OneReply
  <1>1. RoutingInv => OneReply
    <2> SUFFICES ASSUME RoutingInv, NEW q \in Request PROVE replies[q] <= 1
      BY DEF OneReply
    <2>1. replies[q] \in Nat /\ Duties(q) <= 1
      BY DEF RoutingInv, TaskTypes, OneDuty
    <2> QED
      BY <2>1 DEF Duties, One
  <1> QED
    BY <1>1, RoutingInvariant, PTL

\* pendingRequests is exact: no path gives a request back twice or forgets one,
\* and a modern owner without sessions has nothing pending once its goroutines rest.
THEOREM PendingIsExact == RoutingSpec => []PendingMatches
  <1>1. RoutingInv => PendingMatches
    <2> SUFFICES ASSUME RoutingInv PROVE PendingMatches
      OBVIOUS
    <2>1. RoutingTypeOK /\ Counted /\ Records /\ ErasApart
      BY DEF RoutingInv
    <2>2. pending = Cardinality(tracked) + Cardinality({q \in Request : watch[q] = "claimed"})
                      + Cardinality({q \in Request : run[q] # "off"})
      BY <2>1 DEF Counted, Claimed, Running
    <2>3. ASSUME isModern, linked = {}, Resting PROVE pending = 0 /\ tracked = {}
      <3>1. \A q \in Request : ~m[q].live
        BY <2>1, <2>3, Readers DEF Records, Resting
      <3>2. tracked = {}
        BY <2>1, <2>3, <3>1 DEF Records, RoutingTypeOK
      <3>3. Claimed = {} /\ Running = {}
        BY <2>3 DEF Resting, Claimed, Running
      <3>4. Cardinality({}) = 0
        BY FS_EmptySet
      <3> QED
        BY <2>1, <3>2, <3>3, <3>4 DEF Counted
    <2> QED
      BY <2>1, <2>2, <2>3 DEF PendingMatches
  <1> QED
    BY <1>1, RoutingInvariant, PTL

\* No frame about a modern request is written after its end, no subscription
\* event before its acknowledgement, and no cancellation before its request.
THEOREM EndIsFinal == RoutingSpec => []NothingAfterEnd
  <1>1. RoutingInv => NothingAfterEnd
    BY DEF RoutingInv
  <1> QED
    BY <1>1, RoutingInvariant, PTL
=============================================================================
