------------------------------- MODULE Routing -------------------------------
(***************************************************************************)
(* How one owner routes messages between its sessions and its upstream     *)
(* (muxcore/owner: owner.go, modern.go, progress_reporter.go, and          *)
(* muxcore/session/session.go).                                            *)
(*                                                                         *)
(* An owner of the legacy era rewrites request IDs, keeps its requests in  *)
(* several tables with a lock each, and lets whoever takes a request out   *)
(* of inflightTracker answer it.  An owner of the modern era keeps one     *)
(* record per request, whose mutex orders every frame about it.  A native  *)
(* owner hands requests to an in-process handler.                          *)
(*                                                                         *)
(* The goroutines are one reader per session, the attempt that forwards    *)
(* queued requests, the upstream's reader, a notifier, one watchdog per    *)
(* call, and one drainer of queued notifications per session.  A step is   *)
(* what one of them does under one lock.  Starting and retiring processes  *)
(* is reduced to Die, Drain and Replace; Materialization has the detail.   *)
(***************************************************************************)
EXTENDS Naturals, FiniteSets, Sequences, SequencesExt

CONSTANTS
  Session,   \* downstream sessions
  Request,   \* requests that hosts send, each once
  From,      \* From[q]: the session that sends q
  HostID,    \* HostID[q]: the ID its host gave it, unique within the session
  Token,     \* Token[q]: its progress token
  Kind,      \* Kind[e][q]: in era e "call", "list" (cacheable) or "listen" (subscription)
  NoRequest,
  Era,       \* eras the owner may be of: "legacy", "native", "modern", "shared"
  NotifCap,  \* notificationBufferSize
  Slots,     \* capacity of requestSlots
  MaxGen,    \* bound: processes
  MaxEvents  \* bound by era: notifications, cancellations, lost sessions and processes

ASSUME RoutingAssumption ==
  /\ NotifCap \in Nat \ {0} /\ Slots \in Nat \ {0}
  /\ MaxGen \in Nat \ {0} /\ MaxEvents \in [Era -> Nat]
  /\ \A q, r \in Request : From[q] = From[r] /\ HostID[q] = HostID[r] => q = r
  /\ From \in [Request -> Session] /\ NoRequest \notin Request /\ "attempt" \notin Session
  /\ IsFiniteSet(Session) /\ IsFiniteSet(Request)

VARIABLES
  era,       \* protocol era and sharing of the owner
  linked,    \* Owner.sessions
  conn,      \* connection of each session: "open", "broken" (writes fail), "closed"
  asked,     \* requests read from their sessions
  queue,     \* pendingDemands waiting for a process
  tracked,   \* inflightTracker
  known,     \* the session manager's inflight
  tagged,    \* methodTags
  progressOwners,   \* token -> the request that registered it last
  requestToTokens,  \* requests with a token to clear
  timedOut,  \* timedOutIDs
  pending,   \* pendingRequests
  cached,    \* toolList is present
  m,         \* modern: the records of requests
  run,       \* native: handler goroutine of each request
  at,        \* what readers and the attempt do, and with which request
  up,        \* what the upstream's reader does
  watch,     \* tool watchdog of each request
  chan,      \* notifCh of each session: the requests the entries are about
  drainer,   \* sessions whose drainNotifications runs
  send,      \* SendNotification calls of the upstream's reader and the notifier
  process,   \* the current process: its number, whether it lives, upstreamDead
  owes,      \* requests it received and may still answer
  drained,   \* requests claimed from a dead process, yet to be answered
  proc,      \* process each request was bound to
  replies,   \* ghost: terminal frames written for each request
  stray,     \* ghost: requests with a frame written after their end
  received, told,  \* ghost: requests and cancellations that reached proc[q]
  cancelled, \* ghost: requests their hosts cancelled
  events

hostVars  == <<era, linked, conn, asked, queue>>
tokenVars == <<progressOwners, requestToTokens>>
tables    == <<tracked, known, tagged, tokenVars, timedOut, pending>>
taskVars  == <<run, at, up, watch>>
notifVars == <<chan, drainer, send>>
procVars  == <<process, owes, drained, proc>>
frameVars == <<stray, received, told>>
ghosts    == <<replies, frameVars>>
vars == <<hostVars, tables, cached, m, taskVars, notifVars, procVars, ghosts, cancelled, events>>

Reader == Session \cup {"attempt"}
Sender == {"upstream", "notifier"}
Idle == [do |-> "idle", q |-> NoRequest]
Silent == [do |-> "idle", to |-> <<>>, q |-> NoRequest]
Fresh == [live |-> FALSE, written |-> FALSE, acked |-> FALSE, ended |-> FALSE]
isModern == era \in {"modern", "shared"}

\* Every table keeps its type; a notification queue stays within its buffer and
\* the native handlers within their slots.
RoutingTypeOK ==
  /\ era \in Era /\ linked \subseteq Session
  /\ conn \in [Session -> {"open", "broken", "closed"}]
  /\ asked \subseteq Request /\ queue \subseteq asked /\ tracked \subseteq asked
  /\ known \subseteq asked /\ tagged \subseteq asked /\ requestToTokens \subseteq asked
  /\ \A k \in DOMAIN progressOwners : progressOwners[k] \in asked /\ Token[progressOwners[k]] = k
  /\ timedOut \subseteq asked /\ pending \in 0 .. Cardinality(Request)
  /\ cached \in BOOLEAN
  /\ m \in [Request -> [live : BOOLEAN, written : BOOLEAN, acked : BOOLEAN, ended : BOOLEAN]]
  /\ run \in [Request -> {"off", "handling", "returned"}]
  /\ Cardinality({q \in Request : run[q] # "off"}) <= Slots
  /\ up.q \in Request \cup {NoRequest}
  /\ watch \in [Request -> {"off", "armed", "claimed"}]
  /\ \A s \in Session : chan[s] \in Seq(Request \cup {NoRequest}) /\ Len(chan[s]) <= NotifCap
  /\ drainer \subseteq Session
  /\ process.gen \in 1 .. MaxGen
  /\ owes \subseteq asked /\ drained \subseteq asked
  /\ proc \in [Request -> 0 .. MaxGen] /\ events \in 0 .. MaxEvents[era]

RoutingInit ==
  /\ era \in Era
  /\ linked = Session /\ conn = [s \in Session |-> "open"]
  /\ asked = {} /\ queue = {} /\ tracked = {} /\ known = {} /\ tagged = {}
  /\ progressOwners = <<>> /\ requestToTokens = {}
  /\ timedOut = {} /\ pending = 0 /\ cached \in {FALSE, era = "legacy"}
  /\ m = [q \in Request |-> Fresh] /\ run = [q \in Request |-> "off"]
  /\ at = [t \in Reader |-> Idle] /\ up = Idle /\ watch = [q \in Request |-> "off"]
  /\ chan = [s \in Session |-> <<>>] /\ drainer = Session
  /\ send = [p \in Sender |-> Silent]
  /\ process = [gen |-> 1, alive |-> TRUE, dead |-> FALSE]
  /\ owes = {} /\ drained = {} /\ proc = [q \in Request |-> 0]
  /\ replies = [q \in Request |-> 0] /\ stray = {} /\ received = {} /\ told = {}
  /\ cancelled = {}
  /\ events = MaxEvents[era]
-----------------------------------------------------------------------------
(* Session.WriteRaw and the tables *)

Event == events > 0 /\ events' = events - 1

Writable(s) == conn[s] = "open"

\* Terminal frames for the requests of Q, where their connection takes them.
Reply(Q) == replies' = [q \in Request |->
              replies[q] + IF q \in Q /\ Writable(From[q]) THEN 1 ELSE 0]

decrementPending(n) == pending' = IF pending < n THEN 0 ELSE pending - n

Go(t, do, q) == at' = [at EXCEPT ![t] = IF do = "idle" THEN Idle ELSE [do |-> do, q |-> q]]

\* The era's name of a request on the wire: a shared owner makes one up, an
\* unshared one keeps the host's.
wireKey(q) == IF era = "shared" THEN <<q>> ELSE <<HostID[q]>>
wireToken(q) == IF era = "shared" THEN <<q>> ELSE <<Token[q]>>

modernSessionLive(q) == From[q] \in linked /\ conn[From[q]] # "closed"

acceptsProcessEvent(g) == process.gen = g /\ ~process.dead

\* finishModernRequest, for the requests of Q that have not ended.
Ending(Q) == {q \in Q : m[q].live}
finishModernRequest(Q) ==
  /\ m' = [q \in Request |-> IF q \in Ending(Q)
                             THEN [m[q] EXCEPT !.live = FALSE, !.written = TRUE, !.ended = TRUE]
                             ELSE m[q]]
  /\ tracked' = tracked \ Ending(Q)
  /\ decrementPending(Cardinality(Ending(Q)))

\* clearProgressTokensForRequest: the token goes even if another session reused it.
clearProgressTokens(Q) ==
  /\ progressOwners' = Restrict(progressOwners,
       DOMAIN progressOwners \ {Token[q] : q \in Q \cap requestToTokens})
  /\ requestToTokens' = requestToTokens \ Q

trackProgressToken(q) ==
  /\ progressOwners' = [k \in DOMAIN progressOwners \cup {Token[q]} |->
                          IF k = Token[q] THEN q ELSE progressOwners[k]]
  /\ requestToTokens' = requestToTokens \cup {q}
-----------------------------------------------------------------------------
(* Messages from hosts.  A session's reader handles one at a time.         *)

Unread(q) == q \notin asked /\ at[From[q]] = Idle /\ conn[From[q]] # "closed"

\* replayFromCache
Replay(q) ==
  /\ Unread(q) /\ cached /\ Kind[era][q] = "list" /\ era = "legacy"
  /\ asked' = asked \cup {q} /\ Reply({q})
  /\ UNCHANGED <<era, linked, conn, queue, tables, cached, m, taskVars, notifVars, procVars,
                 frameVars, cancelled, events>>

\* The readiness check; what finds no process waits in the queue.
Forward(q) ==
  /\ Unread(q) /\ era # "native" /\ ~(cached /\ Kind[era][q] = "list" /\ era = "legacy")
  /\ asked' = asked \cup {q}
  /\ IF process.dead THEN queue' = queue \cup {q} /\ UNCHANGED at
     ELSE Go(From[q], "publish", q) /\ UNCHANGED queue
  /\ UNCHANGED <<era, linked, conn, tables, cached, m, run, up, watch, notifVars, procVars,
                 ghosts, cancelled, events>>

\* dispatchToSessionHandler
Dispatch(q) ==
  /\ Unread(q) /\ era = "native"
  /\ asked' = asked \cup {q}
  /\ IF Cardinality({r \in Request : run[r] # "off"}) < Slots
     THEN run' = [run EXCEPT ![q] = "handling"] /\ pending' = pending + 1 /\ UNCHANGED replies
     ELSE Reply({q}) /\ UNCHANGED <<run, pending>>
  /\ UNCHANGED <<era, linked, conn, queue, tracked, known, tagged, tokenVars, timedOut, cached, m,
                 at, up, watch, notifVars, procVars, frameVars, cancelled, events>>

\* The handler answers, fails, panics, is cancelled or returns nothing; then its
\* slot is released and the count given back.
Handler(q) ==
  \/ /\ run[q] = "handling"
     /\ run' = [run EXCEPT ![q] = "returned"] /\ UNCHANGED pending
     /\ \E answered \in SUBSET {q} : Reply(answered)
     /\ UNCHANGED <<hostVars, tracked, known, tagged, tokenVars, timedOut, cached, m, at, up,
                    watch, notifVars, procVars, frameVars, cancelled, events>>
  \/ /\ run[q] = "returned"
     /\ run' = [run EXCEPT ![q] = "off"] /\ decrementPending(1)
     /\ UNCHANGED <<hostVars, tracked, known, tagged, tokenVars, timedOut, cached, m, at, up,
                    watch, notifVars, procVars, ghosts, cancelled, events>>
-----------------------------------------------------------------------------
(* Forwarding, by the reader t of the session or by the attempt            *)

ForwardQueued(q) ==
  /\ q \in queue /\ at["attempt"] = Idle /\ ~process.dead
  /\ queue' = queue \ {q} /\ Go("attempt", "publish", q)
  /\ UNCHANGED <<era, linked, conn, asked, tables, cached, m, run, up, watch, notifVars, procVars,
                 ghosts, cancelled, events>>

\* expireLocalDemand
ExpireDemand(q) ==
  /\ q \in queue
  /\ queue' = queue \ {q} /\ Reply({q})
  /\ UNCHANGED <<era, linked, conn, asked, tables, cached, m, taskVars, notifVars, procVars,
                 frameVars, cancelled, events>>

\* The bind callback of writeUpstreamFromCurrent, first part: the process is
\* captured, the request counted, tracked and its token registered.
PublishLegacy(t) ==
  LET q == at[t].q IN
  /\ at[t].do = "publish" /\ era = "legacy"
  /\ pending' = pending + 1 /\ tracked' = tracked \cup {q}
  /\ tagged' = IF Kind[era][q] = "list" THEN tagged \cup {q} ELSE tagged
  /\ trackProgressToken(q)
  /\ proc' = [proc EXCEPT ![q] = process.gen]
  /\ Go(t, "track", q)
  /\ UNCHANGED <<hostVars, known, timedOut, cached, m, run, up, watch, notifVars, process, owes,
                 drained, ghosts, cancelled, events>>

\* writeUpstreamFromCurrent finds no process: nothing is published.
NoUpstream(t) ==
  /\ at[t].do = "publish" /\ process.dead
  /\ Reply({at[t].q}) /\ Go(t, "idle", NoRequest)
  /\ UNCHANGED <<hostVars, tables, cached, m, run, up, watch, notifVars, procVars, frameVars,
                 cancelled, events>>

\* Mutant: no call is watched.
TrackUnwatched(t) ==
  LET q == at[t].q IN
  /\ at[t].do = "track"
  /\ known' = known \cup {q}
  /\ Go(t, "write", q)
  /\ UNCHANGED <<hostVars, tracked, tagged, tokenVars, timedOut, pending, cached, m, run, up,
                 watch, notifVars, procVars, ghosts, cancelled, events>>

\* Second part: the session manager's TrackRequest and startToolWatchdog, for an
\* upstream that declared a tool timeout.
TrackRequest(t) ==
  LET q == at[t].q IN
  /\ at[t].do = "track"
  /\ known' = known \cup {q}
  /\ watch' = IF Kind[era][q] = "call" THEN [watch EXCEPT ![q] = "armed"] ELSE watch
  /\ Go(t, "write", q)
  /\ UNCHANGED <<hostVars, tracked, tagged, tokenVars, timedOut, pending, cached, m, run, up,
                 notifVars, procVars, ghosts, cancelled, events>>

\* The keys of q are free, its session is attached, and the process is current.
Publishable(q) ==
  /\ acceptsProcessEvent(process.gen) /\ modernSessionLive(q)
  /\ \A r \in Request : m[r].live => wireKey(r) # wireKey(q) /\ wireToken(r) # wireToken(q)

\* publishModernRequest: every table at once; errModernRouteUnavailable else.
publishModernRequest(t) ==
  LET q == at[t].q IN
  /\ at[t].do = "publish" /\ isModern
  /\ IF Publishable(q)
     THEN /\ m' = [m EXCEPT ![q].live = TRUE] /\ proc' = [proc EXCEPT ![q] = process.gen]
          /\ tracked' = tracked \cup {q} /\ pending' = pending + 1
          /\ Go(t, "write", q) /\ UNCHANGED replies
     ELSE Reply({q}) /\ Go(t, "idle", q) /\ UNCHANGED <<m, proc, tracked, pending>>
  /\ UNCHANGED <<hostVars, known, tagged, tokenVars, timedOut, cached, run, up, watch, notifVars,
                 process, owes, drained, frameVars, cancelled, events>>

\* up.WriteLine reaches the process; it may answer before the call returns.
WriteLine(t) ==
  LET q == at[t].q IN
  /\ at[t].do = "write" /\ process.alive /\ proc[q] = process.gen
  /\ owes' = owes \cup {q}
  /\ received' = IF isModern THEN received \cup {q} ELSE received
  /\ Go(t, IF isModern THEN "written" ELSE "idle", q)
  /\ UNCHANGED <<hostVars, tables, cached, m, run, up, watch, notifVars, process, drained, proc,
                 replies, stray, told, cancelled, events>>

\* releaseWriteLocked
Written(t) ==
  /\ at[t].do = "written"
  /\ m' = [m EXCEPT ![at[t].q].written = TRUE] /\ Go(t, "idle", NoRequest)
  /\ UNCHANGED <<hostVars, tables, cached, run, up, watch, notifVars, procVars, ghosts, cancelled,
                 events>>

\* The write fails: CompareAndDelete, or finishModernRequest, decides who answers.
WriteFails(t) ==
  LET q == at[t].q IN
  /\ at[t].do = "write" /\ (~process.alive \/ proc[q] # process.gen)
  /\ Go(t, "idle", q)
  /\ IF q \in tracked
     THEN /\ Reply({q})
          /\ IF isModern
             THEN finishModernRequest({q})
                  /\ UNCHANGED <<known, tagged, progressOwners, requestToTokens>>
             ELSE /\ tracked' = tracked \ {q} /\ decrementPending(1) /\ known' = known \ {q}
                  /\ tagged' = tagged \ {q} /\ clearProgressTokens({q}) /\ UNCHANGED m
     ELSE /\ m' = [m EXCEPT ![q].written = isModern]
          /\ UNCHANGED <<tracked, known, tagged, tokenVars, pending, replies>>
  /\ UNCHANGED <<hostVars, timedOut, cached, run, up, watch, notifVars, procVars, frameVars,
                 cancelled, events>>
-----------------------------------------------------------------------------
(* Cancellation by the host.  A demand that is being forwarded is awaited. *)

Cancellable(q) ==
  /\ q \in asked \ cancelled /\ at[From[q]] = Idle /\ conn[From[q]] # "closed"
  /\ at["attempt"].q # q \/ (isModern /\ m[q].live)

\* cancelLocalDemand
CancelQueued(q) ==
  /\ Cancellable(q) /\ Event /\ q \in queue
  /\ queue' = queue \ {q} /\ cancelled' = cancelled \cup {q}
  /\ UNCHANGED <<era, linked, conn, asked, tables, cached, m, taskVars, notifVars, procVars,
                 ghosts>>

\* forwardCancelledNotification: the upstream may give the request up, or not.
CancelLegacy(q) ==
  /\ Cancellable(q) /\ Event /\ q \notin queue /\ era = "legacy"
  /\ clearProgressTokens({q}) /\ cancelled' = cancelled \cup {q}
  /\ owes' \in {owes, owes \ {q}}
  /\ UNCHANGED <<hostVars, tracked, known, tagged, timedOut, pending, cached, m, taskVars,
                 notifVars, process, drained, proc, ghosts>>

\* forwardModernCancelledNotification: the request is looked up, ...
CancelModern(q) ==
  /\ Cancellable(q) /\ Event /\ q \notin queue /\ isModern
  /\ cancelled' = cancelled \cup {q}
  /\ Go(From[q], IF m[q].live THEN "cancel" ELSE "idle", q)
  /\ UNCHANGED <<hostVars, tables, cached, m, run, up, watch, notifVars, procVars, ghosts>>

\* ... its write awaited, the record ended, ...
CancelEnds(t) ==
  LET q == at[t].q IN
  /\ at[t].do = "cancel" /\ m[q].written
  /\ IF acceptsProcessEvent(proc[q]) /\ m[q].live /\ modernSessionLive(q)
     THEN finishModernRequest({q}) /\ Go(t, "tell", q)
     ELSE Go(t, "idle", q) /\ UNCHANGED <<m, tracked, pending>>
  /\ UNCHANGED <<hostVars, known, tagged, tokenVars, timedOut, cached, run, up, watch, notifVars,
                 procVars, ghosts, cancelled, events>>

\* ... and the cancellation written to the process that has the request.
CancelTells(t) ==
  LET q == at[t].q IN
  /\ at[t].do = "tell"
  /\ IF process.alive /\ proc[q] = process.gen
     THEN told' = told \cup {q} /\ owes' \in {owes, owes \ {q}}
     ELSE UNCHANGED <<told, owes>>
  /\ Go(t, "idle", q)
  /\ UNCHANGED <<hostVars, tables, cached, m, run, up, watch, notifVars, process, drained, proc,
                 replies, stray, received, cancelled, events>>
-----------------------------------------------------------------------------
(* A session ends: readSession closes it and removeSession forgets it.      *)

Leave(s) ==
  /\ Event /\ at[s] = Idle /\ conn[s] # "closed"
  /\ conn' = [conn EXCEPT ![s] = "closed"] /\ drainer' = drainer \ {s}
  /\ Go(s, "unlink", NoRequest)
  /\ UNCHANGED <<era, linked, asked, queue, tables, cached, m, run, up, watch, chan, send,
                 procVars, ghosts, cancelled>>

Unlink(s) ==
  LET mine == {k \in DOMAIN progressOwners : From[progressOwners[k]] = s} IN
  /\ at[s].do = "unlink"
  /\ linked' = linked \ {s}
  /\ progressOwners' = Restrict(progressOwners, DOMAIN progressOwners \ mine)
  /\ requestToTokens' = requestToTokens \ {progressOwners[k] : k \in mine}
  /\ Go(s, "detach", NoRequest)
  /\ UNCHANGED <<era, conn, asked, queue, tracked, known, tagged, timedOut, pending, cached, m,
                 run, up, watch, notifVars, procVars, ghosts, cancelled, events>>

\* removeModernInflightForSession, cancelLocalDemandsForSession and the session
\* manager's RemoveSession.  inflightTracker keeps the legacy requests.
Detach(s) ==
  LET mine == {q \in asked : From[q] = s} IN
  /\ at[s].do = "detach"
  /\ queue' = queue \ mine /\ known' = known \ mine
  /\ finishModernRequest(mine)
  /\ Go(s, "gone", NoRequest)
  /\ UNCHANGED <<era, linked, conn, asked, tagged, tokenVars, timedOut, cached, run, up, watch,
                 notifVars, procVars, ghosts, cancelled, events>>

\* The peer stops reading: the write deadline passes and the writer stays failed.
Break(s) ==
  /\ Writable(s) /\ Event
  /\ conn' = [conn EXCEPT ![s] = "broken"]
  /\ UNCHANGED <<era, linked, asked, queue, tables, cached, m, taskVars, notifVars, procVars,
                 ghosts, cancelled>>
-----------------------------------------------------------------------------
(* Messages from the process, one at a time, while upstreamEventMu is held  *)
(* for reading.                                                            *)

Listening == up = Idle /\ send["upstream"] = Silent /\ ~process.dead

\* A response is looked up: timedOutIDs first, or the modern record.
Respond(q) ==
  LET dropped == q \in timedOut IN
  /\ Listening /\ q \in owes
  /\ owes' = owes \ {q}
  /\ IF dropped
     THEN /\ timedOut' = timedOut \ {q} /\ tagged' = tagged \ {q} /\ clearProgressTokens({q})
          /\ cached' = (cached \/ q \in tagged) /\ UNCHANGED up
     ELSE /\ up' = IF isModern /\ ~m[q].live THEN up
                   ELSE [do |-> IF isModern THEN "answer" ELSE "claim", q |-> q]
          /\ UNCHANGED <<timedOut, tagged, progressOwners, requestToTokens, cached>>
  /\ UNCHANGED <<hostVars, tracked, known, pending, m, run, at, watch, notifVars, process,
                 drained, proc, ghosts, cancelled, events>>

\* Mutant: a response is delivered whoever has claimed its request.
ClaimUnchecked ==
  LET q == up.q IN
  /\ up.do = "claim"
  /\ tracked' = tracked \ {q} /\ known' = known \ {q} /\ tagged' = tagged \ {q}
  /\ pending' = IF q \in tracked THEN pending - 1 ELSE pending
  /\ clearProgressTokens({q})
  /\ up' = [do |-> "deliver", q |-> q]
  /\ UNCHANGED <<hostVars, timedOut, cached, m, run, at, watch, notifVars, procVars, ghosts,
                 cancelled, events>>

\* The claim on inflightTracker; the caches take what was tagged.
ClaimResponse ==
  LET q == up.q IN
  /\ up.do = "claim"
  /\ IF q \in tracked
     THEN /\ tracked' = tracked \ {q} /\ decrementPending(1) /\ known' = known \ {q}
          /\ clearProgressTokens({q}) /\ tagged' = tagged \ {q}
          /\ \E ok \in BOOLEAN : cached' = (cached \/ (q \in tagged /\ ok))
          /\ up' = [do |-> "deliver", q |-> q]
     ELSE UNCHANGED <<tracked, known, tagged, tokenVars, pending, cached>>
          /\ up' = Idle
  /\ UNCHANGED <<hostVars, timedOut, m, run, at, watch, notifVars, procVars, ghosts, cancelled,
                 events>>

DeliverResponse ==
  /\ up.do = "deliver"
  /\ Reply({up.q} \cap {q \in Request : From[q] \in linked})
  /\ up' = Idle
  /\ UNCHANGED <<hostVars, tables, cached, m, run, at, watch, notifVars, procVars, frameVars,
                 cancelled, events>>

\* Mutant: the record is not looked at again under its mutex.
AnswerUnlocked ==
  LET q == up.q IN
  /\ up.do = "answer"
  /\ finishModernRequest({q}) /\ Reply({q})
  /\ stray' = IF m[q].ended /\ Writable(From[q]) THEN stray \cup {q} ELSE stray
  /\ up' = Idle
  /\ UNCHANGED <<hostVars, known, tagged, tokenVars, timedOut, cached, run, at, watch, notifVars,
                 procVars, received, told, cancelled, events>>

\* handleModernUpstreamResponse, under the record's mutex
handleModernUpstreamResponse ==
  LET q == up.q IN
  /\ up.do = "answer"
  /\ finishModernRequest({q})
  /\ Reply({q} \cap {r \in Request : m[r].live /\ modernSessionLive(r)})
  /\ up' = Idle
  /\ UNCHANGED <<hostVars, known, tagged, tokenVars, timedOut, cached, run, at, watch, notifVars,
                 procVars, frameVars, cancelled, events>>

\* A modern notification about q: "progress", "ack", "event" or "cancelled".
ModernNote(q, what) ==
  /\ Listening /\ Event /\ isModern /\ q \in owes
  /\ what # "progress" => Kind[era][q] = "listen"
  /\ m[q].live /\ up' = [do |-> what, q |-> q]
  /\ owes' = IF what = "cancelled" THEN owes \ {q} ELSE owes
  /\ UNCHANGED <<hostVars, tables, cached, m, run, at, watch, notifVars, process, drained, proc,
                 ghosts, cancelled>>

\* What a frame of the given kind needs of the record of q.
Deliverable(q, what) ==
  /\ m[q].live /\ modernSessionLive(q)
  /\ what = "ack" => ~m[q].acked
  /\ what = "event" => m[q].acked

\* handleModernUpstreamNotification, under the record's mutex
handleModernUpstreamNotification ==
  LET q == up.q  what == up.do IN
  /\ what \in {"progress", "ack", "event", "cancelled"}
  /\ IF Deliverable(q, what)
     THEN /\ stray' = IF m[q].ended \/ (what = "event" /\ ~m[q].acked) THEN stray \cup {q} ELSE stray
          /\ IF what = "cancelled" THEN finishModernRequest({q}) /\ Reply({q})
             ELSE m' = [m EXCEPT ![q].acked = @ \/ what = "ack"]
                  /\ UNCHANGED <<tracked, pending, replies>>
     ELSE UNCHANGED <<stray, m, tracked, pending, replies>>
  /\ up' = Idle
  /\ UNCHANGED <<hostVars, known, tagged, tokenVars, timedOut, cached, run, at, watch, notifVars,
                 procVars, received, told, cancelled, events>>
-----------------------------------------------------------------------------
(* Queued notifications: Session.SendNotification and drainNotifications.  *)

\* Sender p starts to send what is about q to each session of the sequence.
Send(p, to, q) == send' = [send EXCEPT ![p] =
                    IF to = <<>> THEN Silent ELSE [do |-> "offer", to |-> to, q |-> q]]

\* routeProgressNotification: to whoever registered the token last.
RouteProgress(q) ==
  /\ Listening /\ Event /\ era = "legacy" /\ q \in owes
  /\ Token[q] \in DOMAIN progressOwners
  /\ LET s == From[progressOwners[Token[q]]] IN s \in linked /\ Send("upstream", <<s>>, q)
  /\ UNCHANGED <<hostVars, tables, cached, m, taskVars, chan, drainer, procVars, ghosts,
                 cancelled>>

\* routeToLastActiveSession: a request of the upstream goes the same way.
RouteCallback(q) ==
  /\ Listening /\ Event /\ era = "legacy"
  /\ q \in known /\ From[q] \in linked
  /\ Send("upstream", <<From[q]>>, NoRequest)
  /\ UNCHANGED <<hostVars, tables, cached, m, taskVars, chan, drainer, procVars, ghosts,
                 cancelled>>

\* broadcast of a list-changed notification, after invalidateCacheIfNeeded
Broadcast(to) ==
  /\ Listening /\ Event /\ era = "legacy"
  /\ cached' = FALSE
  /\ Send("upstream", to, NoRequest)
  /\ UNCHANGED <<hostVars, tables, m, taskVars, chan, drainer, procVars, ghosts, cancelled>>

\* broadcastListChanged by the attempt, or Notify and Broadcast of ownerNotifier.
Notify(to) ==
  /\ Event /\ era \in {"legacy", "native"} /\ send["notifier"] = Silent /\ to # <<>>
  /\ Send("notifier", to, NoRequest)
  /\ UNCHANGED <<hostVars, tables, cached, m, taskVars, chan, drainer, procVars, ghosts,
                 cancelled>>

Target(p) == Head(send[p].to)
NextTarget(p) == Send(p, Tail(send[p].to), send[p].q)
Enqueue(p) == chan' = [chan EXCEPT ![Target(p)] = Append(@, send[p].q)] /\ NextTarget(p)

\* A first try that does not block, ...
Offer(p) ==
  /\ send[p].do = "offer"
  /\ IF conn[Target(p)] = "closed" THEN NextTarget(p) /\ UNCHANGED chan
     ELSE IF Len(chan[Target(p)]) < NotifCap THEN Enqueue(p)
     ELSE send' = [send EXCEPT ![p].do = "drop"] /\ UNCHANGED chan
  /\ UNCHANGED <<hostVars, tables, cached, m, taskVars, drainer, procVars, ghosts, cancelled,
                 events>>

\* ... then the oldest entry is dropped, ...
DropOldest(p) ==
  /\ send[p].do = "drop"
  /\ chan' = [chan EXCEPT ![Target(p)] = IF @ = <<>> THEN @ ELSE Tail(@)]
  /\ send' = [send EXCEPT ![p].do = "push"]
  /\ UNCHANGED <<hostVars, tables, cached, m, taskVars, drainer, procVars, ghosts, cancelled,
                 events>>

\* ... and the entry is sent, which waits for room.
Push(p) ==
  /\ send[p].do = "push" /\ Len(chan[Target(p)]) < NotifCap
  /\ Enqueue(p)
  /\ UNCHANGED <<hostVars, tables, cached, m, taskVars, drainer, procVars, ghosts, cancelled,
                 events>>

\* The host of s waits on an answer to a request with the token of q.
Awaited(q, s) == \E r \in asked : From[r] = s /\ Token[r] = Token[q] /\ replies[r] = 0

\* drainNotifications returns at the first write that fails.
DrainNotification(s) ==
  /\ s \in drainer /\ chan[s] # <<>>
  /\ chan' = [chan EXCEPT ![s] = Tail(@)]
  /\ drainer' = IF Writable(s) THEN drainer ELSE drainer \ {s}
  /\ UNCHANGED <<hostVars, tables, cached, m, taskVars, send, procVars, ghosts, cancelled,
                 events>>
-----------------------------------------------------------------------------
(* startToolWatchdog *)

\* Mutant: the watchdog looks the request up and leaves it tracked.
ClaimByLoad(q) ==
  /\ watch[q] = "armed"
  /\ watch' = [watch EXCEPT ![q] = IF q \in tracked THEN "claimed" ELSE "off"]
  /\ UNCHANGED <<hostVars, tables, cached, m, run, at, up, notifVars, procVars, ghosts, cancelled,
                 events>>

WatchdogClaims(q) ==
  /\ watch[q] = "armed"
  /\ watch' = [watch EXCEPT ![q] = IF q \in tracked THEN "claimed" ELSE "off"]
  /\ tracked' = tracked \ {q}
  /\ UNCHANGED <<hostVars, known, tagged, tokenVars, timedOut, pending, cached, m, run, at, up,
                 notifVars, procVars, ghosts, cancelled, events>>

WatchdogAnswers(q) ==
  /\ watch[q] = "claimed"
  /\ watch' = [watch EXCEPT ![q] = "off"]
  /\ timedOut' = timedOut \cup {q} /\ tagged' = tagged \ {q} /\ known' = known \ {q}
  /\ decrementPending(1) /\ Reply({q})
  /\ UNCHANGED <<hostVars, tracked, tokenVars, cached, m, run, at, up, notifVars, procVars,
                 frameVars, cancelled, events>>
-----------------------------------------------------------------------------
(* The process: external but for what the owner does about its loss         *)

Die ==
  /\ Event /\ era # "native" /\ process.alive /\ process' = [process EXCEPT !.alive = FALSE]
  /\ UNCHANGED <<hostVars, tables, cached, m, taskVars, notifVars, owes, drained, proc, ghosts,
                 cancelled>>

\* markCurrentUpstreamDead and claimInflightRequests, under upstreamEventMu for
\* writing: a legacy owner drains what the session manager knows.
Drain ==
  LET Q == IF isModern THEN Ending({q \in asked : proc[q] = process.gen}) ELSE known \cap tracked IN
  /\ ~process.alive /\ Listening
  /\ process' = [process EXCEPT !.dead = TRUE] /\ owes' = {}
  /\ drained' = drained \cup {q \in Q : IF isModern THEN modernSessionLive(q) ELSE From[q] \in linked}
  /\ IF isModern
     THEN finishModernRequest(Q)
          /\ UNCHANGED <<known, tagged, timedOut, progressOwners, requestToTokens>>
     ELSE /\ tracked' = tracked \ Q /\ decrementPending(Cardinality(Q)) /\ known' = {}
          /\ tagged' = tagged \ Q /\ timedOut' = timedOut \ Q /\ clearProgressTokens(Q)
          /\ UNCHANGED m
  /\ UNCHANGED <<hostVars, cached, taskVars, notifVars, proc, ghosts, cancelled, events>>

\* deliverInflightResponses
DeliverDrained(q) ==
  /\ q \in drained
  /\ drained' = drained \ {q} /\ Reply({q})
  /\ UNCHANGED <<hostVars, tables, cached, m, taskVars, notifVars, process, owes, proc, frameVars,
                 cancelled, events>>

Replace ==
  /\ process.dead /\ process.gen < MaxGen
  /\ process' = [gen |-> process.gen + 1, alive |-> TRUE, dead |-> FALSE]
  /\ UNCHANGED <<hostVars, tables, cached, m, taskVars, notifVars, owes, drained, proc, ghosts,
                 cancelled, events>>
-----------------------------------------------------------------------------
ReaderStep(t) ==
  \/ PublishLegacy(t) \/ NoUpstream(t) \/ TrackRequest(t) \/ publishModernRequest(t)
  \/ WriteLine(t) \/ Written(t) \/ WriteFails(t) \/ CancelEnds(t) \/ CancelTells(t)

UpstreamStep == ClaimResponse \/ DeliverResponse \/ handleModernUpstreamResponse
                  \/ handleModernUpstreamNotification

SendStep(p) == Offer(p) \/ DropOldest(p) \/ Push(p)

Next ==
  \/ \E q \in Request :
       \/ Replay(q) \/ Forward(q) \/ Dispatch(q) \/ Handler(q)
       \/ ForwardQueued(q) \/ ExpireDemand(q)
       \/ CancelQueued(q) \/ CancelLegacy(q) \/ CancelModern(q)
       \/ Respond(q) \/ RouteProgress(q) \/ RouteCallback(q)
       \/ WatchdogClaims(q) \/ WatchdogAnswers(q) \/ DeliverDrained(q)
       \/ \E what \in {"progress", "ack", "event", "cancelled"} : ModernNote(q, what)
  \/ \E t \in Reader : ReaderStep(t)
  \/ UpstreamStep
  \/ \E s \in Session : Leave(s) \/ Unlink(s) \/ Detach(s) \/ Break(s) \/ DrainNotification(s)
  \/ \E to \in SetToSeqs(linked) : Broadcast(to) \/ Notify(to)
  \/ \E p \in Sender : SendStep(p)
  \/ Die \/ Drain \/ Replace

RoutingSpec == RoutingInit /\ [][Next]_vars

\* Goroutines of the owner go on, and its timers fire.  Hosts, the process, a
\* native handler and the drainers owe nothing.
FairRoutingSpec ==
  /\ RoutingSpec
  /\ \A t \in Reader : WF_vars(ReaderStep(t))
  /\ WF_vars(UpstreamStep)
  /\ \A q \in Request : /\ WF_vars(WatchdogClaims(q) \/ WatchdogAnswers(q))
                        /\ WF_vars(ExpireDemand(q)) /\ WF_vars(DeliverDrained(q))
-----------------------------------------------------------------------------
\* A host gets at most one terminal frame for a request, whoever of the
\* response, the watchdog, the loss of the process, a failed write, the native
\* handler and a cancellation comes first.
OneReply == \A q \in Request : replies[q] <= 1

\* No goroutine of the owner is in the middle of something.
Resting ==
  /\ \A t \in Reader : at[t].do \in {"idle", "gone"}
  /\ up = Idle /\ drained = {} /\ \A q \in Request : watch[q] = "off" /\ run[q] = "off"

\* pendingRequests, which keeps the reaper away, counts the requests that
\* somebody still tracks or answers: no path gives one back twice or not at all.
\* Once the sessions are gone a modern or native owner has nothing pending, even
\* if the process never answers.
PendingMatches ==
  /\ RoutingTypeOK
  /\ pending = Cardinality(tracked) + Cardinality({q \in Request : watch[q] = "claimed"})
                 + Cardinality({q \in Request : run[q] # "off"})
  /\ isModern /\ linked = {} /\ Resting => pending = 0 /\ tracked = {}

\* A modern request ends once for everybody: no frame about it is written after
\* its end, no subscription event before its acknowledgement, and its process
\* never reads its cancellation before the request itself.
NothingAfterEnd == stray = {} /\ (isModern => told \subseteq received)

\* With a tool timeout, a call is answered although its process hangs or dies,
\* unless its host cancels it, leaves or stops reading.
CallAnswered ==
  \A q \in Request :
    (q \in asked /\ era = "legacy" /\ Kind[era][q] = "call")
      ~> (replies[q] > 0 \/ q \in cancelled \/ ~Writable(From[q]))

\* Progress is written to a host only while it waits on a request with that token,
\* as handleUpstreamMessageFromLocked intends.  The code does not ensure it: the
\* watchdog leaves the token of the call it answered, queued progress is overtaken
\* by the response, and hosts that use the same token share one entry.
NoUnknownProgress ==
  [][\A s \in Session :
       DrainNotification(s) /\ Writable(s) /\ Head(chan[s]) # NoRequest => Awaited(Head(chan[s]), s)]_vars
=============================================================================
