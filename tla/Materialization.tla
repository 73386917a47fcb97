---------------------------- MODULE Materialization ----------------------------
(***************************************************************************)
(* The upstream controller of one owner (muxcore/owner/materialization.go): *)
(* when an upstream process is started, proven retired and replaced, and   *)
(* what becomes of the requests of the sessions meanwhile.                 *)
(*                                                                         *)
(* The goroutines are the run of each generation (runMaterialization), the *)
(* exit monitor of each process, the finalizer of each process             *)
(* (retireReadyProcess and its retry loop), the reader that carries each   *)
(* request, and one restart pinner. An action is one section under         *)
(* materializationMu, or one read or write outside it.                     *)
(*                                                                         *)
(* Launch contexts are left out: whether a request's context is compatible *)
(* with the active launch is a free choice. The owner is legacy-era, runs  *)
(* an upstream command and is not held for maintenance. The triggers       *)
(* upstream_exit and write_error are treated alike everywhere in the code  *)
(* and are one trigger, "recover".                                         *)
(***************************************************************************)
EXTENDS Integers, Sequences, FiniteSets

CONSTANTS
  Proc,        \* *upstream.Process pointers
  NoProc,      \* the nil process
  Template,    \* the origin of a cache restored from a snapshot or template
  Session,     \* sessions of the owner
  Request,     \* requests of the sessions, each sent once
  SessionOf,   \* SessionOf[d] is the session that sends d
  MaxGen,      \* bound of the generation counter
  Outside      \* what the instance contains: calls from outside, and "cold", no cache yet

ASSUME ProcAssumption    == NoProc \notin Proc /\ Template \notin Proc \cup {NoProc}
ASSUME RequestAssumption == SessionOf \in [Request -> Session]
ASSUME GenAssumption     == MaxGen \in Nat
ASSUME OutsideAssumption == Outside \subseteq {"eager", "background", "stop", "pin", "cold"}

VARIABLES
  state,       \* materializationState
  upstream,    \* o.upstream
  dead,        \* upstreamDead
  retiring,    \* retiringProcess
  attempt,     \* generation of materializationAttempt, 0 for nil
  generation,  \* materializationGeneration
  trigger,     \* materializationTrigger
  resume,      \* restartResumeTrigger
  persistent,  \* materializationPolicy is Persistent, or persistentPending
  stage,       \* process of the cacheStage
  cache,       \* the process whose discovery the owner's cache holds
  stopped,     \* materializationStop is closed
  order,       \* pendingDemandOrder
  req,         \* the reader of each request, and its localDemand
  tracked,     \* inflightTracker, counted by pendingRequests: the process of each request
  known,       \* requests that sessionMgr.inflight holds
  run,         \* runMaterialization of each generation
  mon,         \* monitorUpstreamExit of each process
  fin,         \* retireReadyProcess or the retry loop of each process
  life,        \* each process: "unused", "running", "exited", "proven"
  sess,        \* each session: "out", "open", "closed", "gone"
  pin,         \* the AcquireRestartPin call and the attempt it waits for
  notified,    \* onUpstreamExit was called
  answers      \* ghost: number of answers written for each request

procVars   == <<upstream, dead, retiring, stage, cache, life>>
demandVars == <<order, req, tracked, known, answers>>
vars == <<state, attempt, generation, trigger, resume, persistent, stopped, run, mon, fin, sess, pin,
          notified, procVars, demandVars>>

State   == {"CACHE_ONLY", "MATERIALIZING", "READY", "FINALIZING", "FINALIZE_BLOCKED"}
Trigger == {"demand", "recover", "persistent", "background", "eager"}
Gen     == 1 .. MaxGen
NewRun(t) == [at |-> "check", trigger |-> t, proc |-> NoProc, ready |-> FALSE, failed |-> "no",
              cancel |-> FALSE, early |-> FALSE, retry |-> "", order |-> <<>>]

\* signalFailure: the first failure counts.
Fails(r, why) == [r EXCEPT !.failed = IF @ = "no" THEN why ELSE @]

\* Locals that are not used any more are dropped.
RunAt(pc, retry) == [NewRun("demand") EXCEPT !.at = pc, !.retry = retry]
Reader(pc)       == [at |-> pc, gen |-> 0, queued |-> FALSE, up |-> NoProc]
NoFinalizer      == [at |-> "none", trigger |-> "recover"]

\* Every variable keeps its type.
MatTypeOK ==
  /\ state \in State
  /\ upstream \in Proc \cup {NoProc} /\ retiring \in Proc \cup {NoProc}
  /\ stage \in Proc \cup {NoProc} /\ cache \in Proc \cup {NoProc, Template}
  /\ {dead, persistent, stopped, notified} \subseteq BOOLEAN
  /\ attempt \in 0 .. generation /\ generation \in 0 .. MaxGen
  /\ trigger \in Trigger \cup {""} /\ resume \in Trigger \cup {""}
  /\ order \in Seq(Request)
  /\ req \in [Request -> [at : {"new", "waiting", "capture", "bind", "write", "failed",
                                "settling", "done", "cancelled"},
                          gen : 0 .. MaxGen, queued : BOOLEAN, up : Proc \cup {NoProc}]]
  /\ tracked \in [Request -> Proc \cup {NoProc}] /\ known \subseteq Request
  /\ \A n \in Gen :
       /\ run[n].at \in {"none", "check", "start", "launched", "discover", "retire",
                         "closing", "retired", "backoff", "finish", "forward", "forwarding",
                         "lost", "settling", "fail", "resume", "restart", "ended"}
       /\ run[n].trigger \in Trigger /\ run[n].proc \in Proc \cup {NoProc}
       /\ {run[n].ready, run[n].cancel, run[n].early} \subseteq BOOLEAN
       /\ run[n].failed \in {"no", "gone", "other"}
       /\ run[n].retry \in Trigger \cup {""}
       /\ run[n].order \in Seq(Request)
  /\ mon \in [Proc -> {"none", "watch", "retire"}]
  /\ fin \in [Proc -> [at : {"none", "closing", "retry", "start"}, trigger : Trigger]]
  /\ life \in [Proc -> {"unused", "running", "exited", "proven"}]
  /\ sess \in [Session -> {"out", "open", "closed", "gone"}]
  /\ pin \in [at : {"idle", "wait", "cancelled", "check", "held", "release"}, gen : 0 .. MaxGen]
  /\ answers \in [Request -> Nat]

\* NewOwner without, or NewOwnerFromSnapshot with, a cache; no process yet.
Init ==
  /\ state = "CACHE_ONLY" /\ upstream = NoProc /\ dead = FALSE /\ retiring = NoProc
  /\ attempt = 0 /\ generation = 0 /\ trigger = "" /\ resume = ""
  /\ persistent \in BOOLEAN /\ stopped = FALSE /\ notified = FALSE
  /\ stage = NoProc /\ cache = IF "cold" \in Outside THEN NoProc ELSE Template
  /\ order = <<>> /\ known = {}
  /\ tracked = [d \in Request |-> NoProc]
  /\ req = [d \in Request |-> Reader("new")]
  /\ run = [n \in Gen |-> RunAt("none", "")]
  /\ mon = [p \in Proc |-> "none"] /\ fin = [p \in Proc |-> NoFinalizer]
  /\ life = [p \in Proc |-> "unused"] /\ sess = [s \in Session |-> "out"]
  /\ pin = [at |-> "idle", gen |-> 0]
  /\ answers = [d \in Request |-> 0]

-----------------------------------------------------------------------------
(* What the sections ask of the state.                                     *)

Attached == {s \in Session : sess[s] \in {"open", "closed"}}   \* o.sessions
Pinned   == pin.at \notin {"idle", "release"}                  \* restartPins > 0

Waiting  == {d \in Request : req[d].at = "waiting"}
Tracked  == {d \in Request : tracked[d] # NoProc}
Pending  == Waiting \cup {d \in Request : req[d].queued /\ req[d].at \in {"capture", "bind", "write"}}

\* sessionEligibleForDemand
Eligible(d) == sess[SessionOf[d]] = "open"

MaterializationStillNeeded(t) ==
  t \in {"eager", "background", "persistent"} \/ Pending # {} \/ persistent \/ Attached # {}

ShouldRetryMaterialization(t) ==
  ~stopped /\ (persistent \/ Pending # {} \/ (t = "recover" /\ Attached # {}))

\* The attempt's process, when there is an attempt.
AttemptProc == IF attempt = 0 THEN NoProc ELSE run[attempt].proc

AcceptsProcessEvent(p) ==
  /\ retiring # p /\ state \notin {"FINALIZING", "FINALIZE_BLOCKED"}
  /\ upstream = p /\ ~dead

\* The answers after the requests D were answered once more.
Answer(D) == [d \in Request |-> IF d \in D THEN answers[d] + 1 ELSE answers[d]]

\* claimInflightRequests and deliverInflightResponses: the requests that both
\* the session manager and the tracker hold, of any process, get an error.
ClaimInflight ==
  /\ answers' = Answer(Tracked \cap known)
  /\ tracked' = [d \in Request |-> IF d \in known THEN NoProc ELSE tracked[d]]
  /\ known' = {}

\* The keys of q that are in D, in the order of q: the set has one sequence.
Keeping(q, D) ==
  LET I == {i \in 1 .. Len(q) : q[i] \in D}
      N == 1 .. Cardinality(I)
  IN {[j \in N |-> q[f[j]]] : f \in {g \in [N -> I] : \A a, b \in N : a < b => g[a] < g[b]}}

\* detachLocalDemandsForGenerationLocked, writeFailedLocalDemands: those of D
\* fail, and the order keeps the keys that are still waiting.
FailDemands(D) ==
  /\ req' = [d \in Request |-> IF d \in D THEN Reader("done") ELSE req[d]]
  /\ order' \in Keeping(order, Waiting \ D)
  /\ answers' = Answer(D)

-----------------------------------------------------------------------------
(* startMaterializationLocked.                                             *)

MayStart ==
  /\ ~Pinned /\ ~stopped
  /\ state \notin {"FINALIZING", "FINALIZE_BLOCKED"} /\ retiring = NoProc
  /\ attempt = 0
  /\ ~(state = "READY" /\ ~dead)
  /\ ~(dead /\ upstream # NoProc)

\* A new generation with trigger t; r and q are run and req as the caller leaves
\* them. Waiting requests without generation are adopted.
NewGeneration(t, r, q) ==
  /\ generation < MaxGen
  /\ generation' = generation + 1 /\ attempt' = generation + 1
  /\ state' = "MATERIALIZING" /\ trigger' = t
  /\ run' = [r EXCEPT ![generation + 1] = NewRun(t)]
  /\ req' = [d \in Request |-> IF q[d].at = "waiting" /\ q[d].gen = 0
                               THEN [q[d] EXCEPT !.gen = generation + 1] ELSE q[d]]

\* The call as a whole: without a new generation, a pin records why to resume.
StartMaterialization(t, r, q) ==
  \/ MayStart /\ NewGeneration(t, r, q) /\ UNCHANGED resume
  \/ /\ ~MayStart
     /\ run' = r /\ req' = q
     /\ resume' = IF Pinned /\ resume = "" /\ t = "recover" /\ Attached # {} THEN t ELSE resume
     /\ UNCHANGED <<generation, attempt, state, trigger>>

\* StartInitialMaterialization of an owner without template, and
\* SpawnUpstreamBackground of one from a template or snapshot.
SpawnUpstream(t) ==
  /\ t \in Outside /\ generation = 0
  /\ t = "eager" => cache = NoProc
  /\ StartMaterialization(IF t = "eager" /\ persistent THEN "persistent" ELSE t, run, req)
  /\ UNCHANGED <<persistent, stopped, mon, fin, sess, pin, notified, procVars,
                 order, tracked, known, answers>>

\* resumeMaterializationAfterRestartPin, called by a goroutine that leaves run as r.
ResumeMaterialization(r) ==
  IF Pinned \/ (attempt # 0 /\ ~stopped)
  THEN run' = r /\ UNCHANGED <<resume, generation, attempt, state, trigger, req>>
  ELSE LET t == IF persistent THEN "persistent"
                ELSE IF resume = "" /\ Pending # {} THEN "demand" ELSE resume
       IN /\ resume' = ""
          /\ IF t # "" /\ state # "READY" /\ MayStart THEN NewGeneration(t, r, req)
             ELSE run' = r /\ UNCHANGED <<generation, attempt, state, trigger, req>>

-----------------------------------------------------------------------------
(* Retiring an installed process: retireReadyProcess(p, t).                *)

MayRetire(p) == p # NoProc /\ retiring # p /\ upstream = p

\* The marking section. The installed process stays o.upstream until its
\* retirement is proven.
MarkRetiring(p, t) ==
  /\ MayRetire(p)
  /\ dead' = TRUE /\ retiring' = p
  /\ state' = "FINALIZING" /\ trigger' = t
  /\ fin' = [fin EXCEPT ![p] = [at |-> "closing", trigger |-> t]]
  /\ ClaimInflight

\* completeRetiringProcess without proof: the retry loop takes over.
CompleteUnproven(p) ==
  /\ fin[p].at \in {"closing", "retry"} /\ life[p] # "proven"
  /\ retiring = p
  /\ state' = "FINALIZE_BLOCKED"
  /\ FailDemands(Waiting)
  /\ fin' = [fin EXCEPT ![p].at = "retry"]
  /\ UNCHANGED <<attempt, generation, trigger, resume, persistent, stopped, run, mon, sess, pin,
                 notified, procVars, tracked, known>>

\* completeRetiringProcess with proof. An attempt that is still settling starts
\* the replacement itself, so the reason is left for it in resume.
CompleteProven(p) ==
  LET retry == ShouldRetryMaterialization(fin[p].trigger) IN
  /\ fin[p].at \in {"closing", "retry"} /\ life[p] = "proven"
  /\ IF retiring # p
     THEN /\ fin' = [fin EXCEPT ![p] = NoFinalizer]
          /\ UNCHANGED <<state, resume, upstream, dead, retiring, stage, notified,
                         tracked, known, answers>>
     ELSE /\ upstream' = NoProc /\ dead' = TRUE /\ retiring' = NoProc
          /\ stage' = IF stage = p THEN NoProc ELSE stage
          /\ state' = "CACHE_ONLY"
          /\ resume' = IF retry /\ attempt # 0 /\ resume = "" THEN fin[p].trigger ELSE resume
          /\ fin' = [fin EXCEPT ![p] = IF retry /\ attempt = 0 THEN [@ EXCEPT !.at = "start"]
                                      ELSE NoFinalizer]
          /\ notified' = (notified \/ (~retry /\ cache = NoProc))
          /\ ClaimInflight
  /\ UNCHANGED <<attempt, generation, trigger, persistent, stopped, run, mon, sess, pin,
                 cache, life, order, req>>

\* The replacement after the proof, in a section of its own.
StartAfterRetirement(p) ==
  /\ fin[p].at = "start"
  /\ StartMaterialization(fin[p].trigger, run, req)
  /\ fin' = [fin EXCEPT ![p] = NoFinalizer]
  /\ UNCHANGED <<persistent, stopped, mon, sess, pin, notified, procVars,
                 order, tracked, known, answers>>

\* The retry loop ends with the owner.
RetryStops(p) ==
  /\ fin[p].at = "retry" /\ stopped
  /\ fin' = [fin EXCEPT ![p] = NoFinalizer]
  /\ UNCHANGED <<state, attempt, generation, trigger, resume, persistent, stopped, run, mon,
                 sess, pin, notified, procVars, demandVars>>

\* monitorUpstreamExit, monitorMaterializedProcessExit. A process that is being
\* retired is left to its finalizer; a blocked one is tried once more, which is
\* no more than another round of the retry loop if there is one.
MonitorExit(p) ==
  LET a == AttemptProc = p IN
  /\ mon[p] = "watch" /\ life[p] \in {"exited", "proven"}
  /\ IF retiring = p \/ upstream # p
     THEN /\ mon' = [mon EXCEPT ![p] = "none"]
          /\ fin' = IF retiring = p /\ state = "FINALIZE_BLOCKED" /\ ~a /\ fin[p].at = "none"
                    THEN [fin EXCEPT ![p] = [at |-> "closing", trigger |-> trigger]] ELSE fin
          /\ UNCHANGED <<dead, run, tracked, known, answers>>
     ELSE /\ UNCHANGED fin
          /\ mon' = [mon EXCEPT ![p] = IF a /\ ~run[attempt].ready THEN "none" ELSE "retire"]
          /\ IF a THEN /\ dead' = TRUE
                       /\ run' = [run EXCEPT ![attempt] = Fails(@, "other")]
                       /\ ClaimInflight
             ELSE UNCHANGED <<dead, run, tracked, known, answers>>
  /\ UNCHANGED <<state, attempt, generation, trigger, resume, persistent, stopped, sess, pin,
                 notified, upstream, retiring, stage, cache, life, order, req>>

MonitorStops(p) ==
  /\ mon[p] = "watch" /\ stopped
  /\ mon' = [mon EXCEPT ![p] = "none"]
  /\ UNCHANGED <<state, attempt, generation, trigger, resume, persistent, stopped, run, fin, sess,
                 pin, notified, procVars, demandVars>>

MonitorRetires(p) ==
  /\ mon[p] = "retire"
  /\ mon' = [mon EXCEPT ![p] = "none"]
  /\ \/ MarkRetiring(p, "recover")
     \/ ~MayRetire(p) /\ UNCHANGED <<state, trigger, dead, retiring, fin, tracked, known, answers>>
  /\ UNCHANGED <<attempt, generation, resume, persistent, stopped, run, sess, pin, notified,
                 upstream, stage, cache, life, order, req>>

-----------------------------------------------------------------------------
(* runMaterialization of generation n. While it runs, attempt = n.         *)

At(n, pc) == run[n].at = pc
Goto(n, pc) == [run EXCEPT ![n].at = pc]
Ended(n) == [run EXCEPT ![n] = RunAt("ended", "")]

runOnly == <<state, attempt, generation, trigger, resume, persistent, stopped, mon, fin, sess, pin,
             notified, procVars, demandVars>>

\* The top of the loop.
RunCheck(n) ==
  /\ At(n, "check")
  /\ run' = Goto(n, IF stopped \/ run[n].cancel \/ ~MaterializationStillNeeded(run[n].trigger)
                    THEN "fail" ELSE "start")
  /\ UNCHANGED runOnly

\* startAdmittedMaterialization returned no process.
RunStartFails(n) ==
  /\ At(n, "start")
  /\ run' = [Goto(n, "retired") EXCEPT ![n].early = TRUE]
  /\ UNCHANGED runOnly

\* startAdmittedMaterialization, installMaterializationProcess; a process that
\* comes with an error (early) is retired again.
RunStart(n, p, early) ==
  /\ At(n, "start") /\ life[p] = "unused"
  /\ life' = [life EXCEPT ![p] = "running"]
  /\ upstream' = p /\ dead' = FALSE /\ stage' = p
  /\ run' = [run EXCEPT ![n] = [@ EXCEPT !.at = IF early THEN "retire" ELSE "launched", !.proc = p,
                                         !.ready = FALSE, !.failed = "no", !.early = early]]
  /\ UNCHANGED <<state, attempt, generation, trigger, resume, persistent, stopped, mon, fin, sess,
                 pin, notified, retiring, cache, demandVars>>

RunLaunched(n) ==
  /\ At(n, "launched")
  /\ run' = Goto(n, IF run[n].cancel THEN "retire" ELSE "discover")
  /\ mon' = IF run[n].cancel THEN mon ELSE [mon EXCEPT ![run[n].proc] = "watch"]
  /\ UNCHANGED <<state, attempt, generation, trigger, resume, persistent, stopped, fin, sess, pin,
                 notified, procVars, demandVars>>

RunDiscovered(n) ==
  /\ At(n, "discover")
  /\ run[n].ready /\ run[n].failed = "no" /\ ~dead /\ upstream = run[n].proc
  /\ run' = Goto(n, "finish")
  /\ UNCHANGED runOnly

\* Failure, exit, cancellation, stop or the readiness timeout.
RunDiscoveryFails(n) ==
  /\ At(n, "discover")
  /\ run' = Goto(n, "retire")
  /\ UNCHANGED runOnly

\* retireMaterializationProcess: FINALIZING, Close, then with or without proof.
RunRetire(n) ==
  /\ At(n, "retire")
  /\ state' = "FINALIZING" /\ retiring' = run[n].proc
  /\ run' = Goto(n, "closing")
  /\ UNCHANGED <<attempt, generation, trigger, resume, persistent, stopped, mon, fin, sess, pin,
                 notified, upstream, dead, stage, cache, life, demandVars>>

\* Mutant: the end of the root process is taken for the end of its tree.
RunRetiredOnExit(n) ==
  LET p == run[n].proc IN
  /\ At(n, "closing") /\ life[p] \in {"exited", "proven"}
  /\ upstream' = (IF upstream = p THEN NoProc ELSE upstream) /\ dead' = TRUE
  /\ retiring' = IF retiring = p THEN NoProc ELSE retiring
  /\ stage' = IF stage = p THEN NoProc ELSE stage
  /\ state' = IF state = "FINALIZING" THEN "MATERIALIZING" ELSE state
  /\ run' = Goto(n, "retired")
  /\ UNCHANGED <<attempt, generation, trigger, resume, persistent, stopped, mon, fin, sess, pin,
                 notified, cache, life, demandVars>>

RunRetired(n) ==
  LET p == run[n].proc IN
  /\ At(n, "closing") /\ life[p] = "proven"
  /\ upstream' = (IF upstream = p THEN NoProc ELSE upstream) /\ dead' = TRUE
  /\ retiring' = IF retiring = p THEN NoProc ELSE retiring
  /\ stage' = IF stage = p THEN NoProc ELSE stage
  /\ state' = IF state = "FINALIZING" THEN "MATERIALIZING" ELSE state
  /\ run' = Goto(n, "retired")
  /\ UNCHANGED <<attempt, generation, trigger, resume, persistent, stopped, mon, fin, sess, pin,
                 notified, cache, life, demandVars>>

\* Mutant: nobody retries the proof.
RunBlockedForGood(n) ==
  /\ At(n, "closing") /\ life[run[n].proc] # "proven"
  /\ state' = "FINALIZE_BLOCKED"
  /\ run' = Goto(n, "fail")
  /\ UNCHANGED <<attempt, generation, trigger, resume, persistent, stopped, mon, fin, sess, pin,
                 notified, procVars, demandVars>>

\* blockMaterializationFinalization
RunBlocked(n) ==
  LET p == run[n].proc IN
  /\ At(n, "closing") /\ life[p] # "proven"
  /\ state' = "FINALIZE_BLOCKED"
  /\ fin' = [fin EXCEPT ![p] = IF @.at = "none" THEN [at |-> "retry", trigger |-> run[n].trigger]
                               ELSE @]
  /\ run' = Goto(n, "fail")
  /\ UNCHANGED <<attempt, generation, trigger, resume, persistent, stopped, mon, sess, pin,
                 notified, procVars, demandVars>>

\* Retry or give up. The failure of an initiator that left is terminal.
RunDecide(n) ==
  /\ At(n, "retired")
  /\ \/ /\ \/ run[n].cancel \/ ~ShouldRetryMaterialization(run[n].trigger)
           \/ run[n].failed = "gone" /\ ~run[n].early /\ run[n].trigger # "recover"
        /\ run' = Goto(n, "fail")
     \/ ~run[n].cancel /\ ShouldRetryMaterialization(run[n].trigger) /\ run' = Goto(n, "backoff")
  /\ UNCHANGED runOnly

\* waitForMaterializationRetry
RunBackoff(n) ==
  /\ At(n, "backoff")
  /\ \/ /\ run' = Goto(n, "check")
        /\ state' = IF run[n].early THEN state ELSE "MATERIALIZING"
     \/ (run[n].cancel \/ stopped) /\ run' = Goto(n, "fail") /\ UNCHANGED state
  /\ UNCHANGED <<attempt, generation, trigger, resume, persistent, stopped, mon, fin, sess, pin,
                 notified, procVars, demandVars>>
\* finishMaterializationFailure, up to a.finish and the error answers.
RunFail(n) ==
  /\ At(n, "fail")
  /\ FailDemands({d \in Waiting : req[d].gen = n})
  /\ attempt' = 0 /\ stage' = NoProc
  /\ state' = IF state = "FINALIZE_BLOCKED" THEN state
              ELSE IF retiring # NoProc \/ state = "FINALIZING" THEN "FINALIZING"
              ELSE "CACHE_ONLY"
  /\ run' = [run EXCEPT ![n] = RunAt("resume", run[n].retry)]
  /\ UNCHANGED <<generation, trigger, resume, persistent, stopped, mon, fin, sess, pin, notified,
                 upstream, dead, retiring, cache, life, tracked, known>>

\* Its last call.
RunResume(n) ==
  /\ At(n, "resume")
  /\ ResumeMaterialization(Goto(n, IF run[n].retry = "" THEN "ended" ELSE "restart"))
  /\ UNCHANGED <<persistent, stopped, mon, fin, sess, pin, notified, procVars,
                 order, tracked, known, answers>>

-----------------------------------------------------------------------------
(* finishMaterializationSuccess of generation n.                           *)

\* The loop takes the whole order and forwards it outside the mutex.
RunTakeDemands(n) ==
  /\ At(n, "finish") /\ order # <<>>
  /\ run' = [Goto(n, "forward") EXCEPT ![n].order = order]
  /\ order' = <<>>
  /\ UNCHANGED <<state, attempt, generation, trigger, resume, persistent, stopped, mon, fin, sess,
                 pin, notified, procVars, req, tracked, known, answers>>

Live(n) ==
  state = "MATERIALIZING" /\ retiring = NoProc /\ upstream = run[n].proc /\ ~dead

\* Mutant: the end of the queue publishes READY whatever became of the process.
RunReadyUnchecked(n) ==
  /\ At(n, "finish") /\ order = <<>> /\ Pending = {}
  /\ attempt' = 0 /\ state' = "READY" /\ trigger' = run[n].trigger /\ resume' = ""
  /\ run' = Ended(n)
  /\ UNCHANGED <<generation, persistent, stopped, mon, fin, sess, pin, notified, procVars,
                 demandVars>>

RunReady(n) ==
  /\ At(n, "finish") /\ order = <<>> /\ Pending = {}
  /\ Live(n)
  /\ attempt' = 0 /\ state' = "READY" /\ trigger' = run[n].trigger /\ resume' = ""
  /\ run' = Ended(n)
  /\ UNCHANGED <<generation, persistent, stopped, mon, fin, sess, pin, notified, procVars,
                 demandVars>>

\* The generation lost its process while it forwarded.
RunLost(n) ==
  /\ At(n, "finish") /\ order = <<>> /\ Pending = {}
  /\ ~Live(n)
  /\ run' = [Goto(n, "lost") EXCEPT ![n].retry = IF trigger = "" THEN "recover" ELSE trigger]
  /\ UNCHANGED runOnly

RunRetireLost(n) ==
  /\ At(n, "lost")
  /\ \/ MarkRetiring(run[n].proc, run[n].retry) /\ run' = Goto(n, "settling")
     \/ /\ ~MayRetire(run[n].proc) /\ run' = Goto(n, "fail")
        /\ UNCHANGED <<state, trigger, dead, retiring, fin, tracked, known, answers>>
  /\ UNCHANGED <<attempt, generation, resume, persistent, stopped, mon, sess, pin, notified,
                 upstream, stage, cache, life, order, req>>

RunSettled(n) ==
  /\ At(n, "settling") /\ fin[run[n].proc].at \notin {"closing", "start"}
  /\ run' = Goto(n, "fail")
  /\ UNCHANGED runOnly

\* After the failure of a lost generation.
RunRestart(n) ==
  /\ At(n, "restart")
  /\ IF ShouldRetryMaterialization(run[n].retry)
     THEN StartMaterialization(run[n].retry, Ended(n), req)
     ELSE run' = Ended(n) /\ UNCHANGED <<generation, attempt, state, trigger, resume, req>>
  /\ UNCHANGED <<persistent, stopped, mon, fin, sess, pin, notified, procVars,
                 order, tracked, known, answers>>

\* forwardQueuedDemand of the next key: not of this generation or not waiting
\* any more; refused; answered from the cache; or forwarded.
RunForward(n) ==
  LET d == Head(run[n].order)
      next == [run EXCEPT ![n].order = Tail(@)]
      mine == req[d].at = "waiting" /\ req[d].gen = n
  IN
  /\ At(n, "forward") /\ run[n].order # <<>>
  /\ \/ ~mine /\ run' = next /\ UNCHANGED <<req, answers>>
     \/ /\ mine
        /\ req' = [req EXCEPT ![d] = Reader("done")]
        /\ answers' = Answer({d})
        /\ run' = next
     \/ /\ mine /\ Eligible(d)
        /\ req' = [req EXCEPT ![d].at = "capture", ![d].queued = TRUE]
        /\ run' = [run EXCEPT ![n].at = "forwarding"]
        /\ UNCHANGED answers
  /\ UNCHANGED <<state, attempt, generation, trigger, resume, persistent, stopped, mon, fin, sess,
                 pin, notified, procVars, order, tracked, known>>

RunForwarded(n) ==
  /\ \/ /\ At(n, "forwarding") /\ req[Head(run[n].order)].at = "done"
        /\ run' = [Goto(n, "forward") EXCEPT ![n].order = Tail(@)]
     \/ At(n, "forward") /\ run[n].order = <<>> /\ run' = Goto(n, "finish")
  /\ UNCHANGED runOnly

-----------------------------------------------------------------------------
(* Discovery: messages of process p under the event lease.                 *)

Discovering(p) == AcceptsProcessEvent(p) /\ stage = p /\ AttemptProc = p

\* stageMaterializationCacheResponse: initialize declares persistence, or a
\* response fails; commitMaterializationCache fails too, for an isolated server
\* when the session it was launched for has left.
StageResponse(p) ==
  /\ Discovering(p)
  /\ \/ persistent' = TRUE /\ UNCHANGED run
     \/ run' = [run EXCEPT ![attempt] = Fails(@, "other")] /\ UNCHANGED persistent
     \/ /\ \E s \in Session : sess[s] \in {"closed", "gone"}
        /\ run' = [run EXCEPT ![attempt] = Fails(@, "gone")] /\ UNCHANGED persistent
  /\ UNCHANGED <<state, attempt, generation, trigger, resume, stopped, mon, fin, sess, pin,
                 notified, procVars, demandVars>>

\* commitMaterializationCache: an isolated classification closes the sessions E
\* and drops their waiting requests.
CommitMaterializationCache(p, E) ==
  LET gone == {d \in Waiting : SessionOf[d] \in E} IN
  /\ Discovering(p)
  /\ E \subseteq {s \in Session : sess[s] = "open"}
  /\ cache' = p /\ stage' = NoProc
  /\ run' = [run EXCEPT ![attempt].ready = TRUE]
  /\ sess' = [s \in Session |-> IF s \in E THEN "closed" ELSE sess[s]]
  /\ req' = [d \in Request |-> IF d \in gone THEN Reader("cancelled") ELSE req[d]]
  /\ IF gone = {} THEN UNCHANGED order ELSE order' \in Keeping(order, Pending \ gone)
  /\ UNCHANGED <<state, attempt, generation, trigger, resume, persistent, stopped, mon, fin, pin,
                 notified, upstream, dead, retiring, life, tracked, known, answers>>

-----------------------------------------------------------------------------
(* Requests. The reader of a session handles request d.                    *)

MatReady == state = "READY" /\ ~dead

\* A demand that waits for the running attempt to settle or for a retirement.
PostAttempt == state = "CACHE_ONLY" /\ attempt # 0
MustWait ==
  PostAttempt \/ state = "FINALIZING" \/ retiring # NoProc \/ (dead /\ upstream # NoProc)

Arrives(d) == req[d].at = "new" /\ SessionOf[d] \in Attached

\* materializationReadyForRequests held, or enqueueLocalDemand found it so.
RequestDirect(d) ==
  /\ Arrives(d) /\ MatReady
  /\ req' = [req EXCEPT ![d].at = "capture"]
  /\ UNCHANGED <<state, attempt, generation, trigger, resume, persistent, stopped, run, mon, fin,
                 sess, pin, notified, procVars, order, tracked, known, answers>>

\* enqueueLocalDemand answers at once. A stopped owner leaves the key in order.
RequestRefused(d) ==
  /\ Arrives(d) /\ ~MatReady
  /\ \/ /\ \/ ~Eligible(d) \/ Pinned \/ state = "FINALIZE_BLOCKED"
           \/ attempt # 0 /\ ~PostAttempt                 \* incompatible launch context
        /\ UNCHANGED order
     \/ /\ Eligible(d) /\ ~Pinned /\ state # "FINALIZE_BLOCKED" /\ ~MustWait
        /\ stopped
        /\ order' = Append(order, d)
  /\ req' = [req EXCEPT ![d] = Reader("done")]
  /\ answers' = Answer({d})
  /\ UNCHANGED <<state, attempt, generation, trigger, resume, persistent, stopped, run, mon, fin,
                 sess, pin, notified, procVars, tracked, known>>

\* enqueueLocalDemand keeps it waiting, for the attempt it joins or starts.
RequestQueued(d) ==
  LET q == [req EXCEPT ![d].at = "waiting", ![d].gen = IF MustWait THEN 0 ELSE attempt] IN
  /\ Arrives(d) /\ ~MatReady
  /\ Eligible(d) /\ ~Pinned /\ state # "FINALIZE_BLOCKED"
  /\ order' = Append(order, d)
  /\ \/ /\ MustWait \/ (~stopped /\ attempt # 0)
        /\ req' = q
        /\ UNCHANGED <<generation, attempt, state, trigger, run>>
     \/ ~MustWait /\ MayStart /\ NewGeneration("demand", run, q)
  /\ UNCHANGED <<resume, persistent, stopped, mon, fin, sess, pin, notified, procVars,
                 tracked, known, answers>>

\* expireLocalDemand (answered) or cancelLocalDemand (no answer is due).
DemandEnds(d) ==
  /\ d \in Waiting
  /\ \/ req' = [req EXCEPT ![d] = Reader("done")] /\ answers' = Answer({d})
     \/ req' = [req EXCEPT ![d] = Reader("cancelled")] /\ UNCHANGED answers
  /\ UNCHANGED <<state, attempt, generation, trigger, resume, persistent, stopped, run, mon, fin,
                 sess, pin, notified, procVars, order, tracked, known>>

(* forwardRequestPrepared and writeUpstreamFromCurrent.                    *)

\* The read of o.upstream; without one the request fails at once.
Capture(d) ==
  /\ req[d].at = "capture"
  /\ req' = [req EXCEPT ![d].up = upstream, ![d].at = IF upstream = NoProc THEN "failed" ELSE "bind"]
  /\ answers' = IF upstream = NoProc THEN Answer({d}) ELSE answers
  /\ UNCHANGED <<state, attempt, generation, trigger, resume, persistent, stopped, run, mon, fin,
                 sess, pin, notified, procVars, order, tracked, known>>

\* The bind callback publishes the request before it is written.
Publish(d) ==
  /\ req[d].at = "bind"
  /\ req' = [req EXCEPT ![d].at = "write"]
  /\ tracked' = [tracked EXCEPT ![d] = req[d].up] /\ known' = known \cup {d}
  /\ UNCHANGED <<state, attempt, generation, trigger, resume, persistent, stopped, run, mon, fin,
                 sess, pin, notified, procVars, order, answers>>

\* Mutant: a failed write is answered whoever holds the request.
WriteLineAnswers(d) ==
  /\ req[d].at = "write"
  /\ \/ /\ life[req[d].up] # "proven"
        /\ req' = [req EXCEPT ![d] = Reader("done")]
        /\ UNCHANGED <<tracked, known, answers>>
     \/ /\ req' = [req EXCEPT ![d].at = "failed"]
        /\ answers' = Answer({d})
        /\ tracked' = [tracked EXCEPT ![d] = NoProc]
        /\ known' = known \ {d}
  /\ UNCHANGED <<state, attempt, generation, trigger, resume, persistent, stopped, run, mon, fin,
                 sess, pin, notified, procVars, order>>

\* The write reaches a process that is not proven gone (a descendant may hold the
\* pipe of an exited one), or fails; the failure is answered only by whoever takes
\* the request out of the tracker.
WriteLine(d) ==
  /\ req[d].at = "write"
  /\ \/ /\ life[req[d].up] # "proven"
        /\ req' = [req EXCEPT ![d] = Reader("done")]
        /\ UNCHANGED <<tracked, known, answers>>
     \/ /\ req' = [req EXCEPT ![d].at = "failed"]
        /\ answers' = Answer({d} \cap Tracked)
        /\ tracked' = [tracked EXCEPT ![d] = NoProc]
        /\ known' = IF d \in Tracked THEN known \ {d} ELSE known
  /\ UNCHANGED <<state, attempt, generation, trigger, resume, persistent, stopped, run, mon, fin,
                 sess, pin, notified, procVars, order>>

\* A failed write retires exactly the process it used.
WriteFailed(d) ==
  LET done == [req EXCEPT ![d] = Reader("done")] IN
  /\ req[d].at = "failed"
  /\ \/ /\ req[d].up = NoProc
        /\ StartMaterialization("recover", run, done)
        /\ UNCHANGED <<dead, retiring, fin, tracked, known, answers>>
     \/ /\ MarkRetiring(req[d].up, "recover")
        /\ req' = [req EXCEPT ![d].at = "settling"]
        /\ UNCHANGED <<generation, attempt, resume, run>>
     \/ /\ req[d].up # NoProc /\ ~MayRetire(req[d].up)
        /\ req' = done
        /\ UNCHANGED <<generation, attempt, state, trigger, resume, run, dead, retiring, fin,
                       tracked, known, answers>>
  /\ UNCHANGED <<persistent, stopped, mon, sess, pin, notified, upstream, stage, cache, life, order>>

\* retireReadyProcess returns to the reader.
WriteSettled(d) ==
  /\ req[d].at = "settling" /\ fin[req[d].up].at \notin {"closing", "start"}
  /\ req' = [req EXCEPT ![d] = Reader("done")]
  /\ UNCHANGED <<state, attempt, generation, trigger, resume, persistent, stopped, run, mon, fin,
                 sess, pin, notified, procVars, order, tracked, known, answers>>

\* handleUpstreamMessage: the response of a process that may still speak; a
\* discovery method also refreshes the cache.
Respond(d) ==
  LET p == tracked[d] IN
  /\ d \in Tracked /\ req[d].at = "done" /\ AcceptsProcessEvent(p)
  /\ tracked' = [tracked EXCEPT ![d] = NoProc] /\ known' = known \ {d}
  /\ answers' = Answer({d})
  /\ UNCHANGED cache \/ (~Discovering(p) /\ cache' = p)
  /\ UNCHANGED <<state, attempt, generation, trigger, resume, persistent, stopped, run, mon, fin,
                 sess, pin, notified, upstream, dead, retiring, stage, life, order, req>>
-----------------------------------------------------------------------------
(* Sessions, processes, restart pins and the end of the owner.             *)

SessionStep(s) ==
  /\ \/ sess[s] = "out" /\ sess' = [sess EXCEPT ![s] = "open"]       \* AddSession
     \/ sess[s] = "open" /\ sess' = [sess EXCEPT ![s] = "closed"]    \* the peer hangs up
  /\ UNCHANGED <<state, attempt, generation, trigger, resume, persistent, stopped, run, mon, fin,
                 pin, notified, procVars, demandVars>>

\* removeSession with cancelLocalDemandsForSession,
\* cancelDisposableMaterializationForZeroSessions and sessionMgr.RemoveSession.
RemoveSession(s) ==
  /\ sess[s] = "closed"
  /\ \A d \in Request : SessionOf[d] = s =>              \* its reader is done
       req[d].queued \/ req[d].at \in {"new", "waiting", "done", "cancelled"}
  /\ sess' = [sess EXCEPT ![s] = "gone"]
  /\ req' = [d \in Request |-> IF SessionOf[d] = s /\ d \in Waiting
                               THEN Reader("cancelled") ELSE req[d]]
  /\ known' = {d \in known : SessionOf[d] # s}
  /\ run' = IF /\ Attached = {s} /\ attempt # 0 /\ ~persistent /\ ~Pinned
               /\ run[attempt].trigger \notin {"background", "persistent"}
            THEN [run EXCEPT ![attempt].cancel = TRUE] ELSE run
  /\ UNCHANGED <<state, attempt, generation, trigger, resume, persistent, stopped, mon, fin, pin,
                 notified, procVars, order, tracked, answers>>

\* A process exits, by itself or closed; later its whole tree is proven gone.
ProcessStep(p) ==
  /\ \/ life[p] = "running" /\ life' = [life EXCEPT ![p] = "exited"]
     \/ life[p] = "exited" /\ life' = [life EXCEPT ![p] = "proven"]
  /\ UNCHANGED <<state, attempt, generation, trigger, resume, persistent, stopped, run, mon, fin,
                 sess, pin, notified, upstream, dead, retiring, stage, cache, demandVars>>

\* markCurrentUpstreamDead: the reader of p meets the end of its output or a read
\* error, or the proactive initialization fails, whether p runs or not. A launch
\* that failed has no reader; nothing is retired here, so READY may stay.
MarkUpstreamDead(p) ==
  /\ upstream = p
  /\ ~(AttemptProc = p /\ (run[attempt].at = "launched" \/ run[attempt].early))
  /\ dead' = TRUE
  /\ ClaimInflight
  /\ UNCHANGED <<state, attempt, generation, trigger, resume, persistent, stopped, run, mon, fin,
                 sess, pin, notified, upstream, retiring, stage, cache, life, order, req>>

\* Mutant: the stop also fails what is being forwarded.
StopForwarding ==
  /\ "stop" \in Outside /\ ~stopped
  /\ stopped' = TRUE
  /\ run' = IF attempt = 0 THEN run ELSE [run EXCEPT ![attempt] = Fails(@, "other")]
  /\ FailDemands(Pending)
  /\ UNCHANGED <<state, attempt, generation, trigger, resume, persistent, mon, fin, sess, pin,
                 notified, procVars, tracked, known>>

\* stopMaterialization
StopMaterialization ==
  /\ "stop" \in Outside /\ ~stopped
  /\ stopped' = TRUE
  /\ run' = IF attempt = 0 THEN run ELSE [run EXCEPT ![attempt] = Fails(@, "other")]
  /\ FailDemands(Waiting)
  /\ UNCHANGED <<state, attempt, generation, trigger, resume, persistent, mon, fin, sess, pin,
                 notified, procVars, tracked, known>>

\* AcquireRestartPin: the count goes up and a running attempt is waited for.
PinAcquire ==
  /\ "pin" \in Outside /\ pin.at = "idle"
  /\ pin' = [at |-> IF attempt = 0 THEN "check" ELSE "wait", gen |-> attempt]
  /\ resume' = IF attempt # 0 THEN (IF resume = "" THEN run[attempt].trigger ELSE resume)
               ELSE IF persistent THEN "persistent" ELSE resume
  /\ UNCHANGED <<state, attempt, generation, trigger, persistent, stopped, run, mon, fin, sess,
                 notified, procVars, demandVars>>

\* a.done
PinSettled ==
  /\ pin.at \in {"wait", "cancelled"} /\ run[pin.gen].at \in {"resume", "restart", "ended"}
  /\ pin' = [pin EXCEPT !.at = "check"]
  /\ UNCHANGED <<state, attempt, generation, trigger, resume, persistent, stopped, run, mon, fin,
                 sess, notified, procVars, demandVars>>

\* Mutant: the barrier waits on without cancelling.
PinWaitsOn ==
  /\ pin.at = "wait"
  /\ pin' = [pin EXCEPT !.at = "cancelled"]
  /\ UNCHANGED <<state, attempt, generation, trigger, resume, persistent, stopped, run, mon, fin,
                 sess, notified, procVars, demandVars>>

\* The settle grace ends and the attempt is cancelled.
PinCancels ==
  /\ pin.at = "wait"
  /\ pin' = [pin EXCEPT !.at = "cancelled"]
  /\ run' = [run EXCEPT ![pin.gen].cancel = TRUE]
  /\ UNCHANGED <<state, attempt, generation, trigger, resume, persistent, stopped, mon, fin, sess,
                 notified, procVars, demandVars>>

\* The caller's context or the owner ends first.
PinGivesUp ==
  /\ pin.at \in {"wait", "cancelled"}
  /\ pin' = [pin EXCEPT !.at = "release"]
  /\ UNCHANGED <<state, attempt, generation, trigger, resume, persistent, stopped, run, mon, fin,
                 sess, notified, procVars, demandVars>>

\* The barrier refuses a process that is not proven retired; otherwise the
\* state is exported and the pin stays until RestartPin.Release.
PinHolds ==
  /\ \/ /\ pin.at = "check"
        /\ pin' = [pin EXCEPT !.at = IF \/ state \in {"FINALIZING", "FINALIZE_BLOCKED"}
                                        \/ retiring # NoProc
                                     THEN "release" ELSE "held"]
     \/ pin.at = "held" /\ pin' = [pin EXCEPT !.at = "release"]
  /\ UNCHANGED <<state, attempt, generation, trigger, resume, persistent, stopped, run, mon, fin,
                 sess, notified, procVars, demandVars>>

\* releaseRestartPin
PinReleased ==
  /\ pin.at = "release"
  /\ pin' = [at |-> "idle", gen |-> 0]
  /\ ResumeMaterialization(run)
  /\ UNCHANGED <<persistent, stopped, mon, fin, sess, notified, procVars,
                 order, tracked, known, answers>>

-----------------------------------------------------------------------------
RunStep(n) ==
  \/ RunCheck(n) \/ RunStartFails(n) \/ RunLaunched(n) \/ RunDiscovered(n) \/ RunDiscoveryFails(n)
  \/ RunRetire(n) \/ RunRetired(n) \/ RunBlocked(n) \/ RunDecide(n) \/ RunBackoff(n)
  \/ RunFail(n) \/ RunResume(n) \/ RunTakeDemands(n) \/ RunReady(n) \/ RunLost(n)
  \/ RunRetireLost(n) \/ RunSettled(n) \/ RunRestart(n) \/ RunForward(n) \/ RunForwarded(n)
  \/ \E p \in Proc, early \in BOOLEAN : RunStart(n, p, early)

FinalizerStep(p) ==
  \/ CompleteUnproven(p) \/ CompleteProven(p) \/ StartAfterRetirement(p) \/ RetryStops(p)
  \/ MonitorExit(p) \/ MonitorStops(p) \/ MonitorRetires(p)

DiscoveryStep(p) ==
  \/ StageResponse(p)
  \/ \E E \in SUBSET Session : CommitMaterializationCache(p, E)

ReaderStep(d) ==
  \/ Capture(d) \/ Publish(d) \/ WriteLine(d) \/ WriteFailed(d) \/ WriteSettled(d)

RequestStep(d) ==
  \/ RequestDirect(d) \/ RequestRefused(d) \/ RequestQueued(d) \/ DemandEnds(d)
  \/ ReaderStep(d) \/ Respond(d)

PinStep == PinAcquire \/ PinSettled \/ PinCancels \/ PinGivesUp \/ PinHolds \/ PinReleased

Next ==
  \/ \E t \in {"eager", "background"} : SpawnUpstream(t)
  \/ \E n \in Gen : RunStep(n)
  \/ \E p \in Proc : \/ FinalizerStep(p) \/ DiscoveryStep(p)
                      \/ ProcessStep(p) \/ MarkUpstreamDead(p)
  \/ \E d \in Request : RequestStep(d)
  \/ \E s \in Session : SessionStep(s) \/ RemoveSession(s)
  \/ StopMaterialization
  \/ PinStep

Spec == Init /\ [][Next]_vars

\* The goroutines run on; a demand that is not served meets its timer; a process
\* that a finalizer closes exits and its tree is proven gone in the end; the
\* barrier sees the end of the attempt it waits for. Nothing makes a session,
\* an upstream, or the caller of the barrier act.
FairSpec ==
  /\ Spec
  /\ \A n \in Gen : WF_vars(RunStep(n))
  /\ \A p \in Proc : WF_vars(FinalizerStep(p))
  /\ \A p \in Proc : WF_vars(fin[p].at \in {"closing", "retry"} /\ ProcessStep(p))
  /\ \A d \in Request : WF_vars(DemandEnds(d)) /\ WF_vars(ReaderStep(d))
  /\ WF_vars(PinSettled) /\ WF_vars(PinHolds)

-----------------------------------------------------------------------------
\* A process tree that is not proven gone is the installed one: no replacement
\* starts before that proof, and no path of the controller drops the process, so
\* that a later shutdown or handoff still finds it.
AuthorityKept == \A p \in Proc : life[p] \in {"running", "exited"} => upstream = p

\* READY has an installed process that nobody is retiring, no attempt in progress,
\* and, until the owner stops, an exit monitor that will retire the process. The
\* process may be marked dead meanwhile: requests then wait (MustWait) and nothing
\* but that monitor, or a write that fails, can begin its replacement.
ReadyIsWatched ==
  /\ MatTypeOK
  /\ state = "READY" => /\ upstream # NoProc /\ retiring = NoProc /\ attempt = 0
                        /\ mon[upstream] # "none" \/ stopped

\* A request is answered at most once, whichever of timeout, write failure,
\* process exit, response, rejection and stop race for it.
AnsweredOnce == \A d \in Request : answers[d] <= 1

\* A restart barrier whose settle grace is over gets past the attempt it cancelled,
\* even one that retries for a persistent owner or forwards a long queue; and while
\* its pin is held nothing materializes, so that the state being serialized has
\* no attempt behind it.
BarrierSettles ==
  /\ (pin.at = "cancelled") ~> (pin.at # "cancelled")
  /\ [](pin.at = "held" => attempt = 0)

\* A retirement ends, whichever of the attempt, the exit monitor and a failed
\* write began it, and whoever of them gave up first.
RetirementEnds == \A p \in Proc : (retiring = p) ~> (retiring # p)

\* FINALIZE_BLOCKED does not outlast the missing proof.
BlockedIsReproved == (state = "FINALIZE_BLOCKED") ~> (state # "FINALIZE_BLOCKED")

\* A request that was read, and neither answered nor cancelled, is waiting, on
\* its way, or in flight to the installed process.
NoLostRequest ==
  \A d \in Request :
    req[d].at = "done" /\ answers[d] = 0 /\ SessionOf[d] \in Attached =>
      d \in Tracked \cap known /\ upstream = tracked[d]
=============================================================================
