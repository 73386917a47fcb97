------------------------ MODULE MaterializationProofs ------------------------
(***************************************************************************)
(* Proofs about the upstream controller of an owner, for any number of     *)
(* processes, generations, sessions and requests: a process tree that is   *)
(* not proven gone is the installed one, READY has a watched process       *)
(* behind it, a request is answered at most once, and nothing materializes *)
(* behind a restart pin.                                                   *)
(***************************************************************************)
EXTENDS Materialization, FiniteSetTheorems, TLAPS

\* Where a run that is the attempt stands: without a process, with one of its
\* own, or when its process was given to a finalizer.
Without == {"check", "start", "retired", "backoff"}
Owning  == {"launched", "discover", "retire", "closing", "finish", "forward", "forwarding", "lost"}
Giving  == {"settling", "fail"}
Active  == Without \cup Owning \cup Giving

RunType == [at : Active \cup {"none", "resume", "restart", "ended"}, trigger : Trigger,
            proc : Proc \cup {NoProc}, ready : BOOLEAN, failed : {"no", "gone", "other"},
            cancel : BOOLEAN, early : BOOLEAN, retry : Trigger \cup {""}, order : Seq(Request)]
ReqType == [at : {"new", "waiting", "capture", "bind", "write", "failed", "settling", "done",
                  "cancelled"},
            gen : 0 .. MaxGen, queued : BOOLEAN, up : Proc \cup {NoProc}]
FinType == [at : {"none", "closing", "retry", "start"}, trigger : Trigger]
PinType == [at : {"idle", "wait", "cancelled", "check", "held", "release"}, gen : 0 .. MaxGen]

\* The types, of the controller and of what it does with requests.
ControlTypes ==
  /\ state \in State /\ dead \in BOOLEAN
  /\ upstream \in Proc \cup {NoProc} /\ retiring \in Proc \cup {NoProc}
  /\ stage \in Proc \cup {NoProc} /\ cache \in Proc \cup {NoProc, Template}
  /\ persistent \in BOOLEAN /\ stopped \in BOOLEAN /\ notified \in BOOLEAN
  /\ attempt \in 0 .. generation /\ generation \in 0 .. MaxGen
  /\ trigger \in Trigger \cup {""} /\ resume \in Trigger \cup {""}
  /\ run \in [Gen -> RunType]
  /\ mon \in [Proc -> {"none", "watch", "retire"}] /\ fin \in [Proc -> FinType]
  /\ life \in [Proc -> {"unused", "running", "exited", "proven"}]
  /\ sess \in [Session -> {"out", "open", "closed", "gone"}] /\ pin \in PinType
DemandTypes ==
  /\ order \in Seq(Request) /\ req \in [Request -> ReqType]
  /\ tracked \in [Request -> Proc \cup {NoProc}] /\ known \subseteq Request
  /\ answers \in [Request -> Nat]

\* The key that is being forwarded is the first of the order, and a generation that
\* lost its process has a reason to begin another.
Equipped(r) ==
  /\ r.at = "forwarding" => r.order # <<>>
  /\ r.at \in {"lost", "restart"} => r.retry # ""

\* One run at a time is the attempt, and later generations have not begun.
OneRun ==
  /\ \A n \in Gen : run[n].at \in Active <=> attempt = n
  /\ \A n \in Gen : n > generation => run[n].at = "none"
  /\ \A n \in Gen : Equipped(run[n])

\* What the attempt knows of the installed process and of the retiring one.
Placed ==
  attempt # 0 =>
    /\ state # "READY" /\ trigger # ""
    /\ run[attempt].at \in Without => upstream = NoProc /\ retiring = NoProc
    /\ run[attempt].at \in Owning =>
         /\ run[attempt].proc \in Proc /\ life[run[attempt].proc] # "unused"
         /\ {upstream, retiring} \subseteq {NoProc, run[attempt].proc}
    /\ run[attempt].at \in Giving => upstream = retiring
    /\ run[attempt].at = "closing" => retiring = run[attempt].proc \/ upstream = NoProc
    /\ retiring # NoProc => upstream = retiring \/ run[attempt].at = "closing"

\* Without an attempt the installed process is in service, or being retired.
Resting ==
  /\ attempt = 0 => \/ state = "READY" /\ retiring = NoProc /\ upstream # NoProc
                    \/ state # "READY" /\ upstream = retiring
  /\ retiring # NoProc => state \in {"FINALIZING", "FINALIZE_BLOCKED"} /\ trigger # ""

\* A barrier waits for the attempt it found, and none begins behind it.
Barrier ==
  /\ pin.at \in {"wait", "cancelled"} => pin.gen \in Gen /\ attempt \in {0, pin.gen}
  /\ pin.at \in {"check", "held"} => attempt = 0

\* A request is unanswered until it was published, and as long as it is tracked.
Answering ==
  \A d \in Request :
    /\ answers[d] \in {0, 1}
    /\ req[d].at \in {"new", "waiting", "capture", "bind"} => answers[d] = 0 /\ tracked[d] = NoProc
    /\ tracked[d] # NoProc => answers[d] = 0 /\ req[d].at \in {"write", "done"}

MatInv ==
  /\ ControlTypes
  /\ DemandTypes
  /\ OneRun
  /\ Placed
  /\ Resting
  /\ AuthorityKept
  /\ Barrier
  /\ Answering

-----------------------------------------------------------------------------
(* The operators that actions share.                                       *)

\* What is kept of an order is an order.
LEMMA KeptOrder ==
  ASSUME NEW q \in Seq(Request), NEW D, NEW s \in Keeping(q, D)
  PROVE  s \in Seq(Request)
  <1> DEFINE I == {i \in 1 .. Len(q) : q[i] \in D}
             N == 1 .. Cardinality(I)
  <1>1. Cardinality(I) \in Nat
    <2>1. IsFiniteSet(1 .. Len(q))
      BY FS_Interval
    <2>2. IsFiniteSet(I)
      BY <2>1, FS_Subset
    <2> QED
      BY <2>2, FS_CardinalityType
  <1>2. PICK f \in [N -> I] : s = [j \in N |-> q[f[j]]]
    BY DEF Keeping
  <1>3. \A j \in N : q[f[j]] \in Request
    BY <1>2
  <1> QED
    BY <1>1, <1>2, <1>3

\* A run of the right type is a function of the generation.
LEMMA RunRecord ==
  ASSUME NEW r \in RunType
  PROVE  /\ \A pc \in Active \cup {"none", "resume", "restart", "ended"} :
              /\ [r EXCEPT !.at = pc] \in RunType
              /\ [r EXCEPT !.at = pc].at = pc /\ [r EXCEPT !.at = pc].proc = r.proc
         /\ \A why \in {"gone", "other"} :
              Fails(r, why) \in RunType /\ Fails(r, why).at = r.at /\ Fails(r, why).proc = r.proc
         /\ [r EXCEPT !.cancel = TRUE] \in RunType
         /\ [r EXCEPT !.ready = TRUE] \in RunType
         /\ [r EXCEPT !.early = TRUE] \in RunType
         /\ \A o \in Seq(Request) : [r EXCEPT !.order = o] \in RunType
         /\ \A t \in Trigger : [r EXCEPT !.retry = t] \in RunType
  BY DEF RunType, Fails

\* A new run, and what is kept of one that has ended.
LEMMA RunsBegin ==
  /\ \A t \in Trigger : NewRun(t) \in RunType /\ NewRun(t).at = "check"
  /\ \A pc \in Active \cup {"none", "resume", "restart", "ended"}, t \in Trigger \cup {""} :
       RunAt(pc, t) \in RunType /\ RunAt(pc, t).at = pc
  <1>1. <<>> \in Seq(Request) /\ "demand" \in Trigger
    BY DEF Trigger
  <1>2. \A t \in Trigger : NewRun(t) \in RunType /\ NewRun(t).at = "check"
    BY <1>1 DEF NewRun, RunType, Active, Without
  <1>3. ASSUME NEW pc \in Active \cup {"none", "resume", "restart", "ended"},
               NEW t \in Trigger \cup {""}
        PROVE  RunAt(pc, t) \in RunType /\ RunAt(pc, t).at = pc
    BY <1>1 DEF RunAt, NewRun, RunType
  <1> QED
    BY <1>2, <1>3

\* The reader of a request that has ended.
LEMMA Readers ==
  \A pc \in {"new", "waiting", "capture", "bind", "write", "failed", "settling", "done", "cancelled"} :
    Reader(pc) \in ReqType /\ Reader(pc).at = pc
  BY GenAssumption DEF Reader, ReqType

\* Where a reader has come to, and what it took along.
LEMMA ReqRecord ==
  ASSUME NEW r \in ReqType
  PROVE  /\ \A pc \in {"waiting", "capture", "bind", "write", "failed", "settling"} :
              [r EXCEPT !.at = pc] \in ReqType /\ [r EXCEPT !.at = pc].at = pc
         /\ \A g \in 0 .. MaxGen : [r EXCEPT !.gen = g] \in ReqType /\ [r EXCEPT !.gen = g].at = r.at
         /\ [r EXCEPT !.queued = TRUE] \in ReqType /\ [r EXCEPT !.queued = TRUE].at = r.at
         /\ \A p \in Proc \cup {NoProc} : [r EXCEPT !.up = p] \in ReqType /\ [r EXCEPT !.up = p].at = r.at
  BY DEF ReqType

\* claimInflightRequests answers what is tracked, and forgets it.
LEMMA Claiming ==
  ASSUME MatInv, ClaimInflight, UNCHANGED <<order, req>>
  PROVE  DemandTypes' /\ Answering'
  <1> USE DEF MatInv, ClaimInflight
  <1>1. \A d \in Request : answers'[d] = IF d \in Tracked \cap known THEN answers[d] + 1 ELSE answers[d]
    BY DEF Answer
  <1>2. \A d \in Request : tracked'[d] = IF d \in known THEN NoProc ELSE tracked[d]
    OBVIOUS
  <1>3. answers' \in [Request -> Nat] /\ tracked' \in [Request -> Proc \cup {NoProc}]
    BY DEF DemandTypes, Answer
  <1>4. DemandTypes'
    BY <1>3 DEF DemandTypes
  <1>5. Answering'
    BY <1>1, <1>2 DEF Answering, Tracked, DemandTypes
  <1> QED
    BY <1>4, <1>5

\* Waiting requests that fail are answered once, and do not wait any more.
LEMMA Failing ==
  ASSUME MatInv, NEW D, D \subseteq Waiting, FailDemands(D), UNCHANGED <<tracked, known>>
  PROVE  DemandTypes' /\ Answering'
  <1> USE DEF MatInv, FailDemands
  <1>1. \A d \in Request : /\ answers'[d] = IF d \in D THEN answers[d] + 1 ELSE answers[d]
                           /\ req'[d] = IF d \in D THEN Reader("done") ELSE req[d]
    BY DEF Answer
  <1>2. answers' \in [Request -> Nat]
    BY DEF DemandTypes, Answer
  <1>3. req' \in [Request -> ReqType]
    BY Readers DEF DemandTypes
  <1>4. order' \in Seq(Request)
    BY KeptOrder DEF DemandTypes
  <1>5. DemandTypes'
    BY <1>2, <1>3, <1>4 DEF DemandTypes
  <1>6. Answering'
    BY <1>1, Readers DEF Answering, Waiting, DemandTypes
  <1> QED
    BY <1>5, <1>6


\* The part of the invariant that is about processes, runs and the barrier.
Control == OneRun /\ Placed /\ Resting /\ AuthorityKept /\ Barrier
processVars == <<upstream, dead, retiring, life>>

\* Generations are numbers.
LEMMA Generations ==
  ASSUME ControlTypes
  PROVE  /\ generation \in Nat /\ generation <= MaxGen /\ attempt \in Nat /\ attempt <= generation
         /\ attempt # 0 => attempt \in Gen
         /\ generation < MaxGen => generation + 1 \in Gen
  <1>1. attempt \in 0 .. generation /\ generation \in 0 .. MaxGen
    BY DEF ControlTypes
  <1> QED
    BY <1>1, GenAssumption DEF Gen

\* A step that leaves the processes and the place of every run alone.
LEMMA ControlKept ==
  ASSUME MatInv, UNCHANGED <<state, trigger, attempt, generation, pin, processVars>>,
         \A n \in Gen : /\ run'[n].at = run[n].at /\ run'[n].proc = run[n].proc
                        /\ run'[n].order = run[n].order /\ run'[n].retry = run[n].retry
  PROVE  Control'
  <1> USE DEF MatInv, processVars
  <1>1. OneRun'
    BY DEF OneRun, Equipped
  <1>2. attempt # 0 => attempt \in Gen
    BY Generations
  <1>3. Placed'
    BY <1>2 DEF Placed
  <1>4. Resting' /\ AuthorityKept' /\ Barrier'
    BY DEF Resting, AuthorityKept, Barrier
  <1> QED
    BY <1>1, <1>3, <1>4 DEF Control

\* The requests are left alone.
LEMMA DemandsKept ==
  ASSUME MatInv, UNCHANGED <<order, req, tracked, known, answers>>
  PROVE  DemandTypes' /\ Answering'
  BY DEF MatInv, DemandTypes, Answering

\* The attempt walks on, and keeps what it has: no process, its own, or none any more.
LEMMA Walking ==
  ASSUME MatInv, NEW n \in Gen, run[n].at \in Active, run'[n].at \in Active,
         run'[n].proc = run[n].proc, \A m \in Gen \ {n} : run'[m] = run[m],
         Equipped(run'[n]),
         \/ run[n].at \in Without /\ run'[n].at \in Without \cup Giving
         \/ run[n].at \in Owning \ {"closing"} /\ run'[n].at \in Owning \ {"closing"}
         \/ run[n].at = "settling" /\ run'[n].at = "fail",
         state' = state \/ (state' = "MATERIALIZING" /\ retiring = NoProc),
         UNCHANGED <<trigger, attempt, generation, pin, processVars>>
  PROVE  Control'
  <1> USE DEF MatInv, processVars
  <1>1. attempt = n /\ n # 0
    BY GenAssumption DEF OneRun, Gen
  <1>2. OneRun'
    BY <1>1 DEF OneRun, Active, Without, Owning, Giving
  <1>3. Placed'
    BY <1>1 DEF Placed, Without, Owning, Giving
  <1>4. Resting' /\ AuthorityKept' /\ Barrier'
    BY <1>1 DEF Resting, AuthorityKept, Barrier
  <1> QED
    BY <1>2, <1>3, <1>4 DEF Control

\* An ended run: none of those that are the attempt.
Over(r) == r.at \in {"resume", "restart", "ended"}

\* A new generation begins when no process is installed; the run that begins it
\* may end with the same step.
LEMMA Beginning ==
  ASSUME MatInv, MayStart, NEW t \in Trigger, NEW r \in [Gen -> RunType], NEW q \in [Request -> ReqType],
         \A n \in Gen : r[n] = run[n] \/ (Over(run[n]) /\ Over(r[n]) /\ Equipped(r[n])),
         NewGeneration(t, r, q), UNCHANGED processVars, pin' = pin \/ pin'.at = "idle"
  PROVE  /\ Control' /\ run' \in [Gen -> RunType] /\ req' \in [Request -> ReqType]
         /\ generation' \in 0 .. MaxGen /\ attempt' \in 0 .. generation'
         /\ state' \in State /\ trigger' \in Trigger
         /\ \A d \in Request : req'[d].at = q[d].at
  <1> USE GenAssumption DEF MatInv, MayStart, NewGeneration, processVars
  <1> DEFINE g == generation + 1
  <1>1. g \in Gen /\ attempt = 0 /\ g # 0 /\ generation \in Nat /\ g <= MaxGen
    BY Generations
  <1>2. run' \in [Gen -> RunType] /\ run'[g] = NewRun(t) /\ \A n \in Gen \ {g} : run'[n] = r[n]
    BY <1>1, RunsBegin
  <1>3. req' \in [Request -> ReqType] /\ \A d \in Request : req'[d].at = q[d].at
    <2>1. g \in 0 .. MaxGen
      BY <1>1
    <2>2. ASSUME NEW d \in Request
          PROVE  [q[d] EXCEPT !.gen = g] \in ReqType /\ [q[d] EXCEPT !.gen = g].at = q[d].at
      <3>1. q[d] \in ReqType
        OBVIOUS
      <3> QED
        BY <2>1, <3>1 DEF ReqType
    <2> QED
      BY <2>2
  <1>4. upstream = NoProc /\ retiring = NoProc
    BY <1>1 DEF Resting
  <1>5. \A n \in Gen : run[n].at \notin Active /\ r[n].at \notin Active
    BY <1>1 DEF OneRun, Over, Active, Without, Owning, Giving, Gen
  <1>6. run'[g].at = "check"
    BY <1>2, RunsBegin
  <1>7. OneRun'
    <2>1. \A n \in Gen : run'[n].at \in Active <=> attempt' = n
      BY <1>1, <1>2, <1>5, <1>6 DEF Active, Without
    <2>2. \A n \in Gen : /\ n > generation' => r[n].at = "none"
                         /\ Equipped(r[n])
      BY <1>1 DEF OneRun, Over, Gen
    <2>3. \A n \in Gen : n > generation' => n # g
      BY <1>1 DEF Gen
    <2> QED
      BY <1>2, <1>6, <2>1, <2>2, <2>3 DEF OneRun, Equipped
  <1>8. Placed'
    BY <1>1, <1>4, <1>6 DEF Placed, Trigger, Without, Owning, Giving
  <1>9. Resting' /\ AuthorityKept' /\ Barrier'
    BY <1>1, <1>4 DEF Resting, AuthorityKept, Barrier, Pinned
  <1>10. generation' \in 0 .. MaxGen /\ attempt' \in 0 .. generation'
    BY <1>1
  <1> QED
    BY <1>2, <1>3, <1>7, <1>8, <1>9, <1>10 DEF Control, State

-----------------------------------------------------------------------------
(* runMaterialization.                                                     *)

Places == Active \cup {"none", "resume", "restart", "ended"}

\* Run n comes to pc with the process it has, and the other runs stay where they are.
Turned(n, pc) ==
  /\ run' \in [Gen -> RunType] /\ run'[n].at = pc /\ run'[n].proc = run[n].proc
  /\ \A m \in Gen \ {n} : run'[m] = run[m]

\* A run is replaced by one with the same process.
LEMMA Turning ==
  ASSUME ControlTypes, NEW n \in Gen, NEW r \in RunType, r.proc = run[n].proc,
         run' = [run EXCEPT ![n] = r]
  PROVE  Turned(n, r.at) /\ run'[n] = r
  <1>1. run \in [Gen -> RunType]
    BY DEF ControlTypes
  <1> QED
    BY <1>1 DEF Turned

\* A run moves to another place.
LEMMA Going ==
  ASSUME ControlTypes, NEW n \in Gen, NEW pc \in Places, run' = Goto(n, pc)
  PROVE  Turned(n, pc)
  <1> DEFINE r == [run[n] EXCEPT !.at = pc]
  <1>1. run[n] \in RunType
    BY DEF ControlTypes
  <1>2. r \in RunType /\ r.at = pc /\ r.proc = run[n].proc
    BY <1>1, RunRecord DEF Places
  <1>3. run' = [run EXCEPT ![n] = r]
    BY DEF Goto
  <1> HIDE DEF r
  <1> QED
    BY <1>2, <1>3, Turning

\* The steps from one place to another that keep what the attempt has.
Walk == (Without \X (Without \cup Giving)) \cup ((Owning \ {"closing"}) \X (Owning \ {"closing"}))
          \cup {<<"settling", "fail">>}

\* A step of the run alone.
LEMMA RunWalks ==
  ASSUME MatInv, NEW n \in Gen, NEW pc, UNCHANGED runOnly, Turned(n, pc), <<run[n].at, pc>> \in Walk,
         Equipped(run'[n])
  PROVE  MatInv'
  <1> USE DEF runOnly, procVars, demandVars
  <1>1. ControlTypes'
    BY DEF MatInv, ControlTypes, Turned
  <1>2. Control'
    BY Walking DEF processVars, Turned, Walk, Active, Giving
  <1>3. DemandTypes' /\ Answering'
    BY DemandsKept
  <1> QED
    BY <1>1, <1>2, <1>3 DEF MatInv, Control

\* The steps of the loop that only move the run.
LEMMA Looping ==
  ASSUME MatInv, NEW n \in Gen,
         RunCheck(n) \/ RunStartFails(n) \/ RunDiscovered(n) \/ RunDiscoveryFails(n) \/ RunDecide(n)
           \/ RunLost(n) \/ RunSettled(n) \/ RunForwarded(n)
  PROVE  MatInv'
  <1>1. ControlTypes /\ run[n] \in RunType
    BY DEF MatInv, ControlTypes
  <1>2. {"fail", "start", "retired", "finish", "retire", "backoff", "lost", "forward"} \subseteq Places
    BY DEF Places, Active, Without, Owning, Giving
  <1>3. /\ <<"check", "fail">> \in Walk /\ <<"check", "start">> \in Walk /\ <<"start", "retired">> \in Walk
        /\ <<"retired", "fail">> \in Walk /\ <<"retired", "backoff">> \in Walk
        /\ <<"discover", "finish">> \in Walk /\ <<"discover", "retire">> \in Walk
        /\ <<"finish", "lost">> \in Walk /\ <<"settling", "fail">> \in Walk
        /\ <<"forwarding", "forward">> \in Walk /\ <<"forward", "finish">> \in Walk
    BY DEF Walk, Without, Owning, Giving
  <1>4. CASE RunCheck(n)
    <2>1. Turned(n, "fail") \/ Turned(n, "start")
      BY <1>1, <1>2, <1>4, Going DEF RunCheck
    <2> QED
      BY <1>3, <1>4, <2>1, RunWalks DEF RunCheck, At, Turned, Equipped
  <1>5. CASE RunStartFails(n)
    <2> DEFINE r == [run[n] EXCEPT !.at = "retired", !.early = TRUE]
    <2>1. r \in RunType /\ r.at = "retired" /\ r.proc = run[n].proc
      BY <1>1, <1>2 DEF RunType, Places
    <2>2. run' = [run EXCEPT ![n] = r]
      BY <1>1, <1>5 DEF RunStartFails, Goto, ControlTypes
    <2> HIDE DEF r
    <2> QED
      BY <1>1, <1>3, <1>5, <2>1, <2>2, Turning, RunWalks DEF RunStartFails, At, Equipped
  <1>6. CASE RunDiscovered(n)
    BY <1>1, <1>2, <1>3, <1>6, Going, RunWalks DEF RunDiscovered, At, Turned, Equipped
  <1>7. CASE RunDiscoveryFails(n)
    BY <1>1, <1>2, <1>3, <1>7, Going, RunWalks DEF RunDiscoveryFails, At, Turned, Equipped
  <1>8. CASE RunDecide(n)
    <2>1. Turned(n, "fail") \/ Turned(n, "backoff")
      BY <1>1, <1>2, <1>8, Going DEF RunDecide
    <2> QED
      BY <1>3, <1>8, <2>1, RunWalks DEF RunDecide, At, Turned, Equipped
  <1>9. CASE RunLost(n)
    <2>1. PICK t \in Trigger : run' = [Goto(n, "lost") EXCEPT ![n].retry = t]
      BY <1>1, <1>9 DEF RunLost, ControlTypes, Trigger
    <2> DEFINE r == [run[n] EXCEPT !.at = "lost", !.retry = t]
    <2>2. r \in RunType /\ r.at = "lost" /\ r.proc = run[n].proc /\ r.retry # ""
      BY <1>1, <1>2 DEF RunType, Places, Trigger
    <2>3. run' = [run EXCEPT ![n] = r]
      BY <1>1, <2>1 DEF Goto, ControlTypes
    <2> HIDE DEF r
    <2>4. Turned(n, "lost") /\ run'[n] = r
      <3>1. Turned(n, r.at) /\ run'[n] = r
        BY <1>1, <2>2, <2>3, Turning
      <3> QED
        BY <2>2, <3>1
    <2>5. Equipped(run'[n])
      BY <2>2, <2>4 DEF Equipped
    <2> QED
      BY <1>3, <1>9, <2>4, <2>5, RunWalks DEF RunLost, At
  <1>10. CASE RunSettled(n)
    BY <1>1, <1>2, <1>3, <1>10, Going, RunWalks DEF RunSettled, At, Turned, Equipped
  <1>11. CASE RunForwarded(n)
    <2>1. CASE At(n, "forward") /\ run' = Goto(n, "finish")
      BY <1>1, <1>2, <1>3, <1>11, <2>1, Going, RunWalks DEF RunForwarded, At, Turned, Equipped
    <2>2. CASE At(n, "forwarding") /\ run' = [Goto(n, "forward") EXCEPT ![n].order = Tail(@)]
      <3> DEFINE r == [run[n] EXCEPT !.at = "forward", !.order = Tail(run[n].order)]
      <3>1. Tail(run[n].order) \in Seq(Request)
        <4>1. run[n].order \in Seq(Request) /\ run[n].order # <<>>
          BY <1>1, <2>2 DEF RunType, MatInv, OneRun, Equipped, At
        <4> QED
          BY <4>1
      <3>2. r \in RunType /\ r.at = "forward" /\ r.proc = run[n].proc
        BY <1>1, <1>2, <3>1 DEF RunType, Places
      <3>3. run' = [run EXCEPT ![n] = r]
        BY <1>1, <2>2 DEF Goto, ControlTypes
      <3> HIDE DEF r
      <3> QED
        BY <1>1, <1>3, <1>11, <2>2, <3>2, <3>3, Turning, RunWalks DEF RunForwarded, At, Equipped
    <2> QED
      BY <1>11, <2>1, <2>2 DEF RunForwarded
  <1> QED
    BY <1>4, <1>5, <1>6, <1>7, <1>8, <1>9, <1>10, <1>11

\* What a call that may begin a generation leaves.
Begun(q) ==
  /\ Control' /\ run' \in [Gen -> RunType] /\ req' \in [Request -> ReqType]
  /\ generation' \in 0 .. MaxGen /\ attempt' \in 0 .. generation'
  /\ state' \in State /\ trigger' \in Trigger \cup {""} /\ resume' \in Trigger \cup {""}
  /\ \A d \in Request : req'[d].at = q[d].at

\* The call begins none; the run that made it may end with it.
LEMMA NotBeginning ==
  ASSUME MatInv, NEW r \in [Gen -> RunType], NEW q \in [Request -> ReqType],
         \A n \in Gen : r[n] = run[n] \/ (Over(run[n]) /\ Over(r[n]) /\ Equipped(r[n])),
         run' = r, req' = q, resume' \in Trigger \cup {""},
         UNCHANGED <<generation, attempt, state, trigger, processVars>>, pin' = pin \/ pin'.at = "idle"
  PROVE  Begun(q)
  <1> USE DEF MatInv, processVars
  <1>1. OneRun'
    BY DEF OneRun, Over, Active, Without, Owning, Giving
  <1>2. attempt # 0 => attempt \in Gen /\ run'[attempt] = run[attempt]
    BY Generations DEF OneRun, Over, Active, Without, Owning, Giving
  <1>3. Placed'
    BY <1>2 DEF Placed
  <1>4. Resting' /\ AuthorityKept' /\ Barrier'
    BY DEF Resting, AuthorityKept, Barrier
  <1> QED
    BY <1>1, <1>3, <1>4 DEF Begun, Control, ControlTypes

\* startMaterializationLocked, whether it begins a generation or not.
LEMMA Starting ==
  ASSUME MatInv, NEW t \in Trigger, NEW r \in [Gen -> RunType], NEW q \in [Request -> ReqType],
         \A n \in Gen : r[n] = run[n] \/ (Over(run[n]) /\ Over(r[n]) /\ Equipped(r[n])),
         StartMaterialization(t, r, q), UNCHANGED <<pin, processVars>>
  PROVE  Begun(q)
  <1>1. resume \in Trigger \cup {""}
    BY DEF MatInv, ControlTypes
  <1>2. CASE MayStart /\ NewGeneration(t, r, q) /\ UNCHANGED resume
    BY <1>1, <1>2, Beginning DEF Begun
  <1>3. CASE ~MayStart /\ StartMaterialization(t, r, q)
    <2>1. run' = r /\ req' = q /\ UNCHANGED <<generation, attempt, state, trigger>>
      BY <1>3 DEF StartMaterialization
    <2>2. resume' \in Trigger \cup {""}
      BY <1>1, <1>3 DEF StartMaterialization
    <2> QED
      BY <2>1, <2>2, NotBeginning
  <1> QED
    BY <1>2, <1>3 DEF StartMaterialization

\* resumeMaterializationAfterRestartPin, likewise.
LEMMA Resuming ==
  ASSUME MatInv, NEW r \in [Gen -> RunType],
         \A n \in Gen : r[n] = run[n] \/ (Over(run[n]) /\ Over(r[n]) /\ Equipped(r[n])),
         ResumeMaterialization(r), UNCHANGED processVars, pin' = pin \/ pin'.at = "idle"
  PROVE  Begun(req)
  <1>1. resume \in Trigger \cup {""} /\ req \in [Request -> ReqType]
    BY DEF MatInv, ControlTypes, DemandTypes
  <1> DEFINE t == IF persistent THEN "persistent"
                  ELSE IF resume = "" /\ Pending # {} THEN "demand" ELSE resume
  <1>2. t # "" => t \in Trigger
    BY <1>1 DEF Trigger
  <1>3. \/ resume' \in {resume, ""} /\ run' = r /\ UNCHANGED <<generation, attempt, state, trigger, req>>
        \/ resume' = "" /\ t # "" /\ MayStart /\ NewGeneration(t, r, req)
    BY DEF ResumeMaterialization
  <1> HIDE DEF t
  <1>4. CASE resume' \in {resume, ""} /\ run' = r /\ UNCHANGED <<generation, attempt, state, trigger, req>>
    BY <1>1, <1>4, NotBeginning
  <1>5. CASE resume' = "" /\ t # "" /\ MayStart /\ NewGeneration(t, r, req)
    BY <1>1, <1>2, <1>5, Beginning DEF Begun
  <1> QED
    BY <1>3, <1>4, <1>5

\* The answers do not change with where a waiting request belongs.
LEMMA AnsweringKept ==
  ASSUME MatInv, req' \in [Request -> ReqType], \A d \in Request : req'[d].at = req[d].at,
         UNCHANGED <<order, tracked, known, answers>>
  PROVE  DemandTypes' /\ Answering'
  BY DEF MatInv, DemandTypes, Answering

\* The process is watched from its launch on, unless the attempt was cancelled.
LEMMA Launching == ASSUME MatInv, NEW n \in Gen, RunLaunched(n) PROVE MatInv'
  <1> USE DEF RunLaunched, procVars, demandVars, At
  <1>1. ControlTypes
    BY DEF MatInv
  <1>2. PICK pc \in {"retire", "discover"} : Turned(n, pc)
    BY <1>1, Going DEF Places, Active, Owning
  <1>3. mon' \in [Proc -> {"none", "watch", "retire"}]
    BY <1>1 DEF ControlTypes
  <1>4. ControlTypes'
    BY <1>1, <1>2, <1>3 DEF ControlTypes, Turned
  <1>5. Control'
    BY <1>2, Walking DEF processVars, Turned, Active, Owning, Equipped
  <1>6. DemandTypes' /\ Answering'
    BY DemandsKept
  <1> QED
    BY <1>4, <1>5, <1>6 DEF MatInv, Control

\* A process is started when no other is installed.
LEMMA Launched ==
  ASSUME MatInv, NEW n \in Gen, NEW p \in Proc, NEW early \in BOOLEAN, RunStart(n, p, early)
  PROVE  MatInv'
  <1> USE ProcAssumption DEF RunStart, demandVars, At
  <1>1. ControlTypes /\ run[n] \in RunType /\ run \in [Gen -> RunType]
    BY DEF MatInv, ControlTypes
  <1> DEFINE r == [run[n] EXCEPT !.at = IF early THEN "retire" ELSE "launched", !.proc = p,
                                 !.ready = FALSE, !.failed = "no", !.early = early]
  <1>2. r \in RunType /\ r.at \in {"retire", "launched"} /\ r.proc = p
    BY <1>1 DEF RunType, Active, Owning
  <1>3. run' = [run EXCEPT ![n] = r]
    OBVIOUS
  <1> HIDE DEF r
  <1>4. /\ run' \in [Gen -> RunType] /\ run'[n].at \in {"retire", "launched"} /\ run'[n].proc = p
        /\ \A m \in Gen \ {n} : run'[m] = run[m]
    BY <1>1, <1>2, <1>3
  <1>5. attempt = n /\ n # 0 /\ upstream = NoProc /\ retiring = NoProc
    <2>1. attempt = n /\ n # 0
      BY GenAssumption DEF MatInv, OneRun, Active, Without, Gen
    <2> QED
      BY <2>1 DEF MatInv, Placed, Without
  <1>6. /\ life' \in [Proc -> {"unused", "running", "exited", "proven"}] /\ life'[p] = "running"
        /\ \A o \in Proc \ {p} : life'[o] = life[o]
    BY <1>1 DEF ControlTypes
  <1>7. ControlTypes'
    BY <1>1, <1>4, <1>6 DEF ControlTypes
  <1>8. OneRun'
    BY <1>4, <1>5 DEF MatInv, OneRun, Active, Without, Owning, Giving, Equipped
  <1>9. Placed'
    BY <1>4, <1>5, <1>6 DEF MatInv, Placed, Without, Owning, Giving
  <1>10. AuthorityKept'
    BY <1>5, <1>6 DEF MatInv, AuthorityKept
  <1>11. Resting' /\ Barrier'
    BY <1>5 DEF MatInv, Resting, Barrier
  <1>12. DemandTypes' /\ Answering'
    BY DemandsKept
  <1> QED
    BY <1>7, <1>8, <1>9, <1>10, <1>11, <1>12 DEF MatInv

\* retireMaterializationProcess fences the attempt's process.
LEMMA Retiring == ASSUME MatInv, NEW n \in Gen, RunRetire(n) PROVE MatInv'
  <1> USE ProcAssumption DEF RunRetire, demandVars, At
  <1>1. ControlTypes
    BY DEF MatInv
  <1>2. Turned(n, "closing")
    BY <1>1, Going DEF Places, Active, Owning
  <1>3. attempt = n /\ n # 0
    BY GenAssumption DEF MatInv, OneRun, Active, Owning, Gen
  <1>4. run[n].proc \in Proc /\ life[run[n].proc] # "unused" /\ upstream \in {NoProc, run[n].proc}
    BY <1>3 DEF MatInv, Placed, Owning
  <1>5. ControlTypes'
    BY <1>1, <1>2, <1>4 DEF ControlTypes, Turned, State
  <1>6. OneRun'
    BY <1>2, <1>3 DEF MatInv, OneRun, Turned, Active, Owning, Equipped
  <1>7. Placed'
    BY <1>2, <1>3, <1>4 DEF MatInv, Placed, Turned, Without, Owning, Giving
  <1>8. Resting' /\ AuthorityKept' /\ Barrier'
    BY <1>3 DEF MatInv, Placed, Resting, AuthorityKept, Barrier
  <1>9. DemandTypes' /\ Answering'
    BY DemandsKept
  <1> QED
    BY <1>5, <1>6, <1>7, <1>8, <1>9 DEF MatInv

\* The tree of the attempt's process is proven gone.
LEMMA Retired == ASSUME MatInv, NEW n \in Gen, RunRetired(n) PROVE MatInv'
  <1> USE ProcAssumption DEF RunRetired, demandVars, At
  <1>1. ControlTypes
    BY DEF MatInv
  <1>2. Turned(n, "retired")
    BY <1>1, Going DEF Places, Active, Without
  <1>3. attempt = n /\ n # 0
    BY GenAssumption DEF MatInv, OneRun, Active, Owning, Gen
  <1>4. /\ run[n].proc \in Proc /\ {upstream, retiring} \subseteq {NoProc, run[n].proc}
        /\ state # "READY"
    BY <1>3 DEF MatInv, Placed, Owning
  <1>5. upstream' = NoProc /\ retiring' = NoProc
    BY <1>4
  <1>6. ControlTypes'
    BY <1>1, <1>2, <1>5 DEF ControlTypes, Turned, State
  <1>7. OneRun'
    BY <1>2, <1>3 DEF MatInv, OneRun, Turned, Active, Without, Owning, Equipped
  <1>8. Placed'
    BY <1>2, <1>3, <1>4, <1>5 DEF MatInv, Placed, Turned, Without, Owning, Giving
  <1>9. AuthorityKept'
    BY <1>4, <1>5 DEF MatInv, AuthorityKept
  <1>10. Resting' /\ Barrier'
    BY <1>3, <1>5 DEF MatInv, Resting, Barrier
  <1>11. DemandTypes' /\ Answering'
    BY DemandsKept
  <1> QED
    BY <1>6, <1>7, <1>8, <1>9, <1>10, <1>11 DEF MatInv

\* The proof is missing: the process is left to the retry loop.
LEMMA Blocking == ASSUME MatInv, NEW n \in Gen, RunBlocked(n) PROVE MatInv'
  <1> USE ProcAssumption DEF RunBlocked, procVars, demandVars, At
  <1>1. ControlTypes /\ run[n] \in RunType
    BY DEF MatInv, ControlTypes
  <1>2. Turned(n, "fail")
    BY <1>1, Going DEF Places, Active, Giving
  <1>3. attempt = n /\ n # 0
    BY GenAssumption DEF MatInv, OneRun, Active, Owning, Gen
  <1>4. /\ run[n].proc \in Proc /\ life[run[n].proc] # "unused"
        /\ retiring = run[n].proc \/ upstream = NoProc
    BY <1>3 DEF MatInv, Placed, Owning
  <1>5. life[run[n].proc] \in {"running", "exited"}
    BY <1>1, <1>4 DEF ControlTypes
  <1>6. upstream = run[n].proc /\ retiring = run[n].proc
    BY <1>4, <1>5 DEF MatInv, AuthorityKept
  <1>7. fin' \in [Proc -> FinType]
    BY <1>1, <1>4 DEF ControlTypes, FinType, RunType
  <1>8. ControlTypes'
    BY <1>1, <1>2, <1>7 DEF ControlTypes, Turned, State
  <1>9. OneRun'
    BY <1>2, <1>3 DEF MatInv, OneRun, Turned, Active, Giving, Owning, Equipped
  <1>10. Placed'
    BY <1>2, <1>3, <1>6 DEF MatInv, Placed, Turned, Without, Owning, Giving
  <1>11. Resting' /\ AuthorityKept' /\ Barrier'
    BY <1>3 DEF MatInv, Resting, AuthorityKept, Barrier
  <1>12. DemandTypes' /\ Answering'
    BY DemandsKept
  <1> QED
    BY <1>8, <1>9, <1>10, <1>11, <1>12 DEF MatInv

\* The wait before another try.
LEMMA Waits == ASSUME MatInv, NEW n \in Gen, RunBackoff(n) PROVE MatInv'
  <1> USE DEF RunBackoff, procVars, demandVars, At
  <1>1. ControlTypes
    BY DEF MatInv
  <1>2. PICK pc \in {"check", "fail"} : Turned(n, pc)
    BY <1>1, Going DEF Places, Active, Without, Giving
  <1>3. retiring = NoProc
    <2>1. attempt = n /\ n # 0
      BY GenAssumption DEF MatInv, OneRun, Active, Without, Gen
    <2> QED
      BY <2>1 DEF MatInv, Placed, Without
  <1>4. state' = state \/ state' = "MATERIALIZING"
    OBVIOUS
  <1>5. ControlTypes'
    <2>1. state' \in State /\ run' \in [Gen -> RunType]
      BY <1>1, <1>2, <1>4 DEF ControlTypes, Turned, State
    <2> QED
      BY <1>1, <2>1 DEF ControlTypes
  <1>6. Control'
    BY <1>2, <1>3, <1>4, Walking DEF processVars, Turned, Active, Without, Giving, Equipped
  <1>7. DemandTypes' /\ Answering'
    BY DemandsKept
  <1> QED
    BY <1>5, <1>6, <1>7 DEF MatInv, Control

\* finishMaterializationFailure
LEMMA RunFails == ASSUME MatInv, NEW n \in Gen, RunFail(n) PROVE MatInv'
  <1> USE ProcAssumption DEF RunFail, At
  <1>1. ControlTypes /\ run[n] \in RunType /\ run \in [Gen -> RunType]
    BY DEF MatInv, ControlTypes
  <1>2. attempt = n /\ n # 0 /\ upstream = retiring /\ state # "READY"
    <2>1. attempt = n /\ n # 0
      BY GenAssumption DEF MatInv, OneRun, Active, Giving, Gen
    <2> QED
      BY <2>1 DEF MatInv, Placed, Giving
  <1>3. RunAt("resume", run[n].retry) \in RunType /\ RunAt("resume", run[n].retry).at = "resume"
    <2>1. run[n].retry \in Trigger \cup {""}
      BY <1>1 DEF RunType
    <2> QED
      BY <2>1, RunsBegin
  <1>4. /\ run' \in [Gen -> RunType] /\ run'[n].at = "resume"
        /\ \A m \in Gen \ {n} : run'[m] = run[m]
    BY <1>1, <1>3
  <1>5. /\ state' \in State /\ state' # "READY"
        /\ retiring # NoProc => state' \in {"FINALIZING", "FINALIZE_BLOCKED"}
    BY <1>1, <1>2 DEF ControlTypes, State
  <1>6. ControlTypes'
    <2>1. attempt' \in 0 .. generation' /\ stage' \in Proc \cup {NoProc}
      BY <1>1, Generations
    <2> QED
      BY <1>1, <1>4, <1>5, <2>1 DEF ControlTypes
  <1>7. OneRun'
    <2>1. "resume" \notin Active /\ n > 0
      BY GenAssumption DEF Active, Without, Owning, Giving, Gen
    <2>2. \A m \in Gen : m # 0
      BY GenAssumption DEF Gen
    <2>3. \A m \in Gen : (run'[m].at \in Active) = FALSE
      BY <1>2, <1>4, <2>1 DEF MatInv, OneRun
    <2>4. \A m \in Gen : Equipped(run'[m])
      BY <1>4 DEF MatInv, OneRun, Equipped
    <2>5. n <= generation
      BY <1>1, <1>2, Generations
    <2>6. \A m \in Gen : m > generation => run'[m].at = "none"
      BY <1>4, <2>5, GenAssumption DEF MatInv, OneRun, Gen
    <2> QED
      BY <2>2, <2>3, <2>4, <2>6 DEF OneRun
  <1>8. Placed' /\ Resting' /\ AuthorityKept' /\ Barrier'
    BY <1>2, <1>5 DEF MatInv, Placed, Resting, AuthorityKept, Barrier
  <1>9. DemandTypes' /\ Answering'
    BY Failing
  <1> QED
    BY <1>6, <1>7, <1>8, <1>9 DEF MatInv

\* What follows the failure.
LEMMA RunResumes == ASSUME MatInv, NEW n \in Gen, RunResume(n) PROVE MatInv'
  <1> USE DEF RunResume, procVars, At
  <1>1. ControlTypes /\ run[n] \in RunType /\ run \in [Gen -> RunType]
    BY DEF MatInv, ControlTypes
  <1>2. PICK pc \in {"ended", "restart"} :
          ResumeMaterialization(Goto(n, pc)) /\ (pc = "restart" => run[n].retry # "")
    OBVIOUS
  <1>3. /\ [run[n] EXCEPT !.at = pc] \in RunType /\ [run[n] EXCEPT !.at = pc].at = pc
        /\ Equipped([run[n] EXCEPT !.at = pc])
    BY <1>1, <1>2 DEF RunType, Equipped
  <1>4. /\ Goto(n, pc) \in [Gen -> RunType] /\ Goto(n, pc)[n].at = pc /\ Equipped(Goto(n, pc)[n])
        /\ \A m \in Gen \ {n} : Goto(n, pc)[m] = run[m]
    BY <1>1, <1>3 DEF Goto
  <1>5. \A m \in Gen :
          Goto(n, pc)[m] = run[m] \/ (Over(run[m]) /\ Over(Goto(n, pc)[m]) /\ Equipped(Goto(n, pc)[m]))
    <2> TAKE m \in Gen
    <2>1. CASE m = n
      BY <1>4, <2>1 DEF Over
    <2>2. CASE m # n
      BY <1>4, <2>2
    <2> QED
      BY <2>1, <2>2
  <1>6. Begun(req)
    BY <1>2, <1>4, <1>5, Resuming DEF processVars
  <1>7. ControlTypes'
    BY <1>1, <1>6 DEF ControlTypes, Begun
  <1>8. DemandTypes' /\ Answering'
    BY <1>6, AnsweringKept DEF Begun
  <1> QED
    BY <1>6, <1>7, <1>8 DEF MatInv, Begun, Control

\* The attempt that lost its process may begin again.
LEMMA RunRestarts == ASSUME MatInv, NEW n \in Gen, RunRestart(n) PROVE MatInv'
  <1> USE DEF RunRestart, procVars, At
  <1>1. ControlTypes /\ run[n] \in RunType /\ run \in [Gen -> RunType] /\ req \in [Request -> ReqType]
        /\ resume \in Trigger \cup {""}
    BY DEF MatInv, ControlTypes, DemandTypes
  <1>2. RunAt("ended", "") \in RunType /\ RunAt("ended", "").at = "ended"
    BY RunsBegin
  <1>3. /\ Ended(n) \in [Gen -> RunType] /\ Ended(n)[n].at = "ended"
        /\ \A m \in Gen \ {n} : Ended(n)[m] = run[m]
    BY <1>1, <1>2 DEF Ended
  <1>4. \A m \in Gen :
          Ended(n)[m] = run[m] \/ (Over(run[m]) /\ Over(Ended(n)[m]) /\ Equipped(Ended(n)[m]))
    <2> TAKE m \in Gen
    <2>1. CASE m = n
      BY <1>3, <2>1 DEF Over, Equipped
    <2>2. CASE m # n
      BY <1>3, <2>2
    <2> QED
      BY <2>1, <2>2
  <1>5. run[n].retry \in Trigger
    BY <1>1 DEF RunType, MatInv, OneRun, Equipped
  <1>6. Begun(req)
    <2>1. CASE StartMaterialization(run[n].retry, Ended(n), req)
      BY <1>1, <1>3, <1>4, <1>5, <2>1, Starting DEF processVars
    <2>2. CASE run' = Ended(n) /\ UNCHANGED <<generation, attempt, state, trigger, resume, req>>
      BY <1>1, <1>3, <1>4, <2>2, NotBeginning DEF processVars
    <2> QED
      BY <2>1, <2>2
  <1>7. ControlTypes'
    BY <1>1, <1>6 DEF ControlTypes, Begun
  <1>8. DemandTypes' /\ Answering'
    BY <1>6, AnsweringKept DEF Begun
  <1> QED
    BY <1>6, <1>7, <1>8 DEF MatInv, Begun, Control

-----------------------------------------------------------------------------
(* finishMaterializationSuccess.                                           *)

\* The run takes the order.
LEMMA Taking == ASSUME MatInv, NEW n \in Gen, RunTakeDemands(n) PROVE MatInv'
  <1> USE DEF RunTakeDemands, procVars, At
  <1>1. ControlTypes /\ run[n] \in RunType /\ order \in Seq(Request)
    BY DEF MatInv, ControlTypes, DemandTypes
  <1> DEFINE r == [run[n] EXCEPT !.at = "forward", !.order = order]
  <1>2. r \in RunType /\ r.at = "forward" /\ r.proc = run[n].proc
    BY <1>1 DEF RunType, Active, Owning
  <1>3. run' = [run EXCEPT ![n] = r]
    BY <1>1 DEF Goto, ControlTypes
  <1> HIDE DEF r
  <1>4. Turned(n, r.at) /\ run'[n] = r
    BY <1>1, <1>2, <1>3, Turning
  <1>5. Turned(n, "forward")
    BY <1>2, <1>4
  <1>6. ControlTypes'
    BY <1>1, <1>5 DEF ControlTypes, Turned
  <1>7. Control'
    BY <1>5, Walking DEF processVars, Turned, Active, Owning, Equipped
  <1>8. DemandTypes' /\ Answering'
    BY DEF MatInv, DemandTypes, Answering
  <1> QED
    BY <1>6, <1>7, <1>8 DEF MatInv, Control

\* READY is published with the process that was discovered.
LEMMA Publishing == ASSUME MatInv, NEW n \in Gen, RunReady(n) PROVE MatInv'
  <1>1. ControlTypes /\ run[n] \in RunType /\ run \in [Gen -> RunType]
    BY DEF MatInv, ControlTypes
  <1>2. /\ run[n].at = "finish" /\ Live(n) /\ attempt' = 0 /\ state' = "READY"
        /\ trigger' = run[n].trigger /\ resume' = "" /\ run' = Ended(n)
        /\ UNCHANGED <<generation, persistent, stopped, mon, fin, sess, pin, notified, upstream, dead,
                       retiring, stage, cache, life, order, req, tracked, known, answers>>
    BY DEF RunReady, procVars, demandVars, At
  <1>3. attempt = n
    BY <1>2 DEF MatInv, OneRun, Active, Owning
  <1>4. n # 0 /\ \A m \in Gen : m # 0
    BY GenAssumption DEF Gen
  <1>5. run[n].proc \in Proc
    BY <1>2, <1>3, <1>4 DEF MatInv, Placed, Owning
  <1>6. RunAt("ended", "") \in RunType /\ RunAt("ended", "").at = "ended"
    BY RunsBegin
  <1>7. /\ run' \in [Gen -> RunType] /\ run'[n].at = "ended"
        /\ \A m \in Gen \ {n} : run'[m] = run[m]
    BY <1>1, <1>2, <1>6 DEF Ended
  <1>8. ControlTypes'
    <2>1. attempt' \in 0 .. generation'
      <3>1. generation \in Nat /\ generation' = generation /\ attempt' = 0
        BY <1>1, <1>2, Generations
      <3> QED
        BY <3>1
    <2>2. trigger' \in Trigger /\ state' \in State
      BY <1>1, <1>2 DEF RunType, State
    <2> QED
      BY <1>1, <1>2, <1>7, <2>1, <2>2 DEF ControlTypes
  <1>9. OneRun'
    <2>1. "ended" \notin Active
      BY DEF Active, Without, Owning, Giving
    <2>2. n <= generation
      BY <1>1, <1>3, Generations
    <2>3. \A m \in Gen : run'[m].at \notin Active
      BY <1>3, <1>7, <2>1 DEF MatInv, OneRun
    <2>4. \A m \in Gen : Equipped(run'[m])
      BY <1>7 DEF MatInv, OneRun, Equipped
    <2>5. \A m \in Gen : m > generation => m # n
      <3>1. generation \in Nat /\ n \in Nat /\ \A m \in Gen : m \in Nat
        BY <1>1, Generations, GenAssumption DEF Gen
      <3> QED
        BY <2>2, <3>1
    <2>6. \A m \in Gen : m > generation => run'[m].at = "none"
      BY <1>7, <2>5 DEF MatInv, OneRun
    <2> QED
      BY <1>2, <1>4, <2>3, <2>4, <2>6 DEF OneRun
  <1>10. Placed' /\ AuthorityKept' /\ Barrier'
    BY <1>2 DEF MatInv, Placed, AuthorityKept, Barrier
  <1>11. Resting'
    BY <1>2, <1>5, ProcAssumption DEF Resting, Live
  <1>12. DemandTypes' /\ Answering'
    BY <1>2, DemandsKept
  <1> QED
    BY <1>8, <1>9, <1>10, <1>11, <1>12 DEF MatInv

\* One request goes on: it is answered, or to be carried to the process.
LEMMA OneMoves ==
  ASSUME MatInv, NEW d \in Request, NEW x \in ReqType, req' = [req EXCEPT ![d] = x],
         UNCHANGED <<tracked, known>>, order' \in Seq(Request),
         \/ /\ answers' = answers
            /\ x.at \in {"new", "waiting", "capture", "bind"} =>
                 req[d].at \in {"new", "waiting", "capture", "bind"}
         \/ answers' = Answer({d}) /\ x.at \notin {"new", "waiting", "capture", "bind"}
              /\ req[d].at \in {"new", "waiting", "capture", "bind"},
         tracked[d] # NoProc => x.at \in {"write", "done"}
  PROVE  DemandTypes' /\ Answering'
  <1> USE DEF MatInv
  <1>1. req' \in [Request -> ReqType] /\ req'[d] = x /\ \A e \in Request \ {d} : req'[e] = req[e]
    BY DEF DemandTypes
  <1>2. /\ answers' \in [Request -> Nat]
        /\ \A e \in Request \ {d} : answers'[e] = answers[e]
        /\ answers'[d] \in {answers[d], answers[d] + 1}
        /\ answers' = Answer({d}) => answers'[d] = answers[d] + 1
    BY DEF DemandTypes, Answer
  <1>3. DemandTypes'
    BY <1>1, <1>2 DEF DemandTypes
  <1>4. Answering'
    BY <1>1, <1>2 DEF Answering, DemandTypes
  <1> QED
    BY <1>3, <1>4

\* forwardQueuedDemand
LEMMA Forwarding == ASSUME MatInv, NEW n \in Gen, RunForward(n) PROVE MatInv'
  <1> USE DEF RunForward, procVars, At
  <1> DEFINE d == Head(run[n].order)
             rest == [run[n] EXCEPT !.order = Tail(run[n].order)]
             mine == req[d].at = "waiting" /\ req[d].gen = n
  <1>1. ControlTypes /\ run[n] \in RunType /\ order \in Seq(Request) /\ req \in [Request -> ReqType]
    BY DEF MatInv, ControlTypes, DemandTypes
  <1>2. d \in Request /\ Tail(run[n].order) \in Seq(Request)
    <2>1. run[n].order \in Seq(Request) /\ run[n].order # <<>>
      BY <1>1 DEF RunType
    <2> QED
      BY <2>1
  <1>3. rest \in RunType /\ rest.at = "forward" /\ rest.proc = run[n].proc
    BY <1>1, <1>2 DEF RunType
  <1>4. \/ run' = [run EXCEPT ![n] = rest]
        \/ run' = Goto(n, "forwarding")
    BY <1>1 DEF Goto, ControlTypes
  <1>5. \/ req' = req /\ answers' = answers
        \/ mine /\ req' = [req EXCEPT ![d] = Reader("done")] /\ answers' = Answer({d})
        \/ mine /\ req' = [req EXCEPT ![d].at = "capture", ![d].queued = TRUE] /\ answers' = answers
    OBVIOUS
  <1>6. UNCHANGED <<state, attempt, generation, trigger, resume, persistent, stopped, mon, fin, sess,
                    pin, notified, upstream, dead, retiring, stage, cache, life, order, tracked, known>>
    OBVIOUS
  <1>7. run[n].at = "forward" /\ run[n].order # <<>>
    OBVIOUS
  <1> HIDE DEF RunForward, d, rest
  <1>8. PICK pc \in {"forward", "forwarding"} : Turned(n, pc) /\ Equipped(run'[n])
    <2>1. CASE run' = [run EXCEPT ![n] = rest]
      <3>1. Turned(n, rest.at) /\ run'[n] = rest
        BY <1>1, <1>3, <2>1, Turning
      <3> QED
        BY <1>3, <3>1 DEF Equipped
    <2>2. CASE run' = Goto(n, "forwarding")
      <3>1. Turned(n, "forwarding")
        BY <1>1, <2>2, Going DEF Places, Active, Owning
      <3>2. run'[n].order = run[n].order
        BY <1>1, <2>2 DEF Goto, ControlTypes, RunType
      <3> QED
        BY <1>7, <3>1, <3>2 DEF Equipped, Turned
    <2> QED
      BY <1>4, <2>1, <2>2
  <1>9. ControlTypes'
    BY <1>1, <1>6, <1>8 DEF ControlTypes, Turned
  <1>10. Control'
    BY <1>6, <1>7, <1>8, Walking DEF processVars, Turned, Active, Owning
  <1>11. DemandTypes' /\ Answering'
    <2>1. CASE req' = req /\ answers' = answers
      BY <1>6, <2>1, DemandsKept
    <2>2. ASSUME mine PROVE tracked[d] = NoProc
      BY <1>2, <2>2 DEF MatInv, Answering
    <2>3. CASE mine /\ req' = [req EXCEPT ![d] = Reader("done")] /\ answers' = Answer({d})
      BY <1>1, <1>2, <1>6, <2>2, <2>3, Readers, OneMoves
    <2>4. CASE mine /\ req' = [req EXCEPT ![d].at = "capture", ![d].queued = TRUE] /\ answers' = answers
      <3> DEFINE x == [req[d] EXCEPT !.at = "capture", !.queued = TRUE]
      <3>1. x \in ReqType /\ x.at = "capture"
        BY <1>1, <1>2 DEF ReqType
      <3>2. req' = [req EXCEPT ![d] = x]
        BY <1>1, <1>2, <2>4
      <3> HIDE DEF x
      <3> QED
        BY <1>1, <1>2, <1>6, <2>2, <2>4, <3>1, <3>2, OneMoves
    <2> QED
      BY <1>5, <2>1, <2>3, <2>4
  <1> QED
    BY <1>9, <1>10, <1>11 DEF MatInv, Control

-----------------------------------------------------------------------------
(* Retiring an installed process.                                          *)

\* The mark makes the installed process the retiring one; the run that sets it
\* waits for the finalizer.
LEMMA Marking ==
  ASSUME MatInv, NEW p, NEW t \in Trigger, MarkRetiring(p, t), run' \in [Gen -> RunType],
         \A m \in Gen : \/ run'[m] = run[m]
                        \/ run[m].at = "lost" /\ run'[m].at = "settling" /\ run'[m].proc = run[m].proc,
         UNCHANGED <<attempt, generation, pin, upstream, life>>
  PROVE  /\ Control' /\ p \in Proc
         /\ state' \in State /\ dead' \in BOOLEAN /\ retiring' \in Proc /\ trigger' \in Trigger
         /\ fin' \in [Proc -> FinType]
  <1>1. /\ upstream = p /\ p # NoProc /\ retiring # p /\ retiring' = p /\ state' = "FINALIZING"
        /\ dead' = TRUE /\ trigger' = t /\ fin' = [fin EXCEPT ![p] = [at |-> "closing", trigger |-> t]]
    BY DEF MarkRetiring, MayRetire
  <1>2. p \in Proc /\ fin \in [Proc -> FinType]
    BY <1>1 DEF MatInv, ControlTypes
  <1>3. [at |-> "closing", trigger |-> t] \in FinType
    BY DEF FinType
  <1>4. fin' \in [Proc -> FinType]
    BY <1>1, <1>2, <1>3
  <1>5. attempt # 0 => attempt \in Gen
    BY Generations DEF MatInv
  <1>6. OneRun'
    BY DEF MatInv, OneRun, Equipped, Active, Without, Owning, Giving
  <1>7. Placed'
    <2> SUFFICES ASSUME attempt # 0 PROVE Placed'
      BY DEF Placed
    <2>1. run[attempt].at \in Owning
      BY <1>1, <1>5 DEF MatInv, Placed, OneRun, Active
    <2>2. run'[attempt].at \in Owning \cup {"settling"} /\ run'[attempt].proc = run[attempt].proc
      BY <1>5, <2>1
    <2>3. /\ run[attempt].proc \in Proc /\ life[run[attempt].proc] # "unused" /\ p = run[attempt].proc
      BY <1>1, <2>1 DEF MatInv, Placed
    <2> QED
      BY <1>1, <2>2, <2>3 DEF Placed, Trigger, Without, Owning, Giving
  <1>8. Resting' /\ AuthorityKept' /\ Barrier'
    BY <1>1 DEF MatInv, Trigger, Resting, AuthorityKept, Barrier
  <1> QED
    BY <1>1, <1>2, <1>4, <1>6, <1>7, <1>8 DEF Control, State

\* Everything but the requests.
controlVars == <<state, attempt, generation, trigger, resume, persistent, stopped, run, mon, fin, sess,
                 pin, notified, procVars>>

\* A step that only touches requests.
LEMMA OnlyDemands ==
  ASSUME MatInv, UNCHANGED controlVars, DemandTypes', Answering'
  PROVE  MatInv'
  <1>1. ControlTypes'
    BY DEF MatInv, ControlTypes, controlVars, procVars
  <1>2. Control'
    BY ControlKept DEF controlVars, procVars, processVars
  <1> QED
    BY <1>1, <1>2 DEF MatInv, Control

\* A generation that lost its process has it retired, or finds it retiring.
LEMMA LostRetires == ASSUME MatInv, NEW n \in Gen, RunRetireLost(n) PROVE MatInv'
  <1>1. ControlTypes /\ run[n] \in RunType
    BY DEF MatInv, ControlTypes
  <1>2. /\ run[n].at = "lost"
        /\ UNCHANGED <<attempt, generation, resume, persistent, stopped, mon, sess, pin, notified,
                       upstream, stage, cache, life, order, req>>
    BY DEF RunRetireLost, At
  <1>3. run[n].retry \in Trigger
    BY <1>1, <1>2 DEF RunType, MatInv, OneRun, Equipped
  <1>4. CASE MarkRetiring(run[n].proc, run[n].retry) /\ run' = Goto(n, "settling")
    <2>1. Turned(n, "settling")
      BY <1>1, <1>4, Going DEF Places, Active, Giving
    <2>2. /\ Control' /\ state' \in State /\ dead' \in BOOLEAN /\ retiring' \in Proc
          /\ trigger' \in Trigger /\ fin' \in [Proc -> FinType]
      BY <1>2, <1>3, <1>4, <2>1, Marking DEF Turned
    <2>3. ControlTypes'
      BY <1>1, <1>2, <2>1, <2>2 DEF ControlTypes, Turned
    <2>4. DemandTypes' /\ Answering'
      BY <1>2, <1>4, Claiming DEF MarkRetiring
    <2> QED
      BY <2>2, <2>3, <2>4 DEF MatInv, Control
  <1>5. CASE /\ ~MayRetire(run[n].proc) /\ run' = Goto(n, "fail")
             /\ UNCHANGED <<state, trigger, dead, retiring, fin, tracked, known, answers>>
    <2>1. Turned(n, "fail")
      BY <1>1, <1>5, Going DEF Places, Active, Giving
    <2>2. attempt = n /\ n # 0
      BY <1>2, GenAssumption DEF MatInv, OneRun, Active, Owning, Gen
    <2>3. upstream = retiring
      BY <1>2, <1>5, <2>2, ProcAssumption DEF MatInv, Placed, Owning, MayRetire
    <2>4. ControlTypes'
      BY <1>1, <1>2, <1>5, <2>1 DEF ControlTypes, Turned
    <2>5. OneRun'
      BY <1>2, <2>1, <2>2 DEF MatInv, OneRun, Turned, Active, Owning, Giving, Equipped
    <2>6. Placed'
      BY <1>2, <1>5, <2>1, <2>2, <2>3 DEF MatInv, Placed, Turned, Without, Owning, Giving
    <2>7. Resting' /\ AuthorityKept' /\ Barrier'
      BY <1>2, <1>5 DEF MatInv, Resting, AuthorityKept, Barrier
    <2>8. DemandTypes' /\ Answering'
      BY <1>2, <1>5, DemandsKept
    <2> QED
      BY <2>4, <2>5, <2>6, <2>7, <2>8 DEF MatInv
  <1> QED
    BY <1>4, <1>5 DEF RunRetireLost

\* completeRetiringProcess without the proof.
LEMMA Unproven == ASSUME MatInv, NEW p \in Proc, CompleteUnproven(p) PROVE MatInv'
  <1>1. /\ retiring = p /\ state' = "FINALIZE_BLOCKED" /\ FailDemands(Waiting)
        /\ fin' = [fin EXCEPT ![p].at = "retry"]
        /\ UNCHANGED <<attempt, generation, trigger, resume, persistent, stopped, run, mon, sess, pin,
                       notified, upstream, dead, retiring, stage, cache, life, tracked, known>>
    BY DEF CompleteUnproven, procVars
  <1>2. fin' \in [Proc -> FinType]
    BY <1>1 DEF MatInv, ControlTypes, FinType
  <1>3. ControlTypes'
    BY <1>1, <1>2 DEF MatInv, ControlTypes, State
  <1>4. OneRun' /\ AuthorityKept' /\ Barrier'
    BY <1>1 DEF MatInv, OneRun, AuthorityKept, Barrier
  <1>5. Placed' /\ Resting'
    BY <1>1, ProcAssumption DEF MatInv, Placed, Resting
  <1>6. DemandTypes' /\ Answering'
    BY <1>1, Failing
  <1> QED
    BY <1>3, <1>4, <1>5, <1>6 DEF MatInv

\* completeRetiringProcess with the proof.
LEMMA Proven == ASSUME MatInv, NEW p \in Proc, CompleteProven(p) PROVE MatInv'
  <1> DEFINE retry == ShouldRetryMaterialization(fin[p].trigger)
  <1>1. /\ fin \in [Proc -> FinType] /\ fin[p] \in FinType /\ resume \in Trigger \cup {""}
        /\ NoFinalizer \in FinType
    BY DEF MatInv, ControlTypes, FinType, NoFinalizer, Trigger
  <1>2. /\ life[p] = "proven"
        /\ UNCHANGED <<attempt, generation, trigger, persistent, stopped, run, mon, sess, pin,
                       cache, life, order, req>>
    BY DEF CompleteProven
  <1>3. CASE retiring # p
    <2>1. /\ fin' = [fin EXCEPT ![p] = NoFinalizer]
          /\ UNCHANGED <<state, resume, upstream, dead, retiring, stage, notified, tracked, known,
                         answers>>
      BY <1>3 DEF CompleteProven
    <2>2. ControlTypes'
      BY <1>1, <1>2, <2>1 DEF MatInv, ControlTypes
    <2>3. Control'
      BY <1>2, <2>1, ControlKept DEF processVars
    <2>4. DemandTypes' /\ Answering'
      BY <1>2, <2>1, DemandsKept
    <2> QED
      BY <2>2, <2>3, <2>4 DEF MatInv, Control
  <1>4. CASE retiring = p
    <2>1. /\ upstream' = NoProc /\ dead' = TRUE /\ retiring' = NoProc
          /\ stage' = IF stage = p THEN NoProc ELSE stage
          /\ state' = "CACHE_ONLY"
          /\ resume' = IF retry /\ attempt # 0 /\ resume = "" THEN fin[p].trigger ELSE resume
          /\ fin' = [fin EXCEPT ![p] = IF retry /\ attempt = 0 THEN [@ EXCEPT !.at = "start"]
                                      ELSE NoFinalizer]
          /\ notified' = (notified \/ (~retry /\ cache = NoProc))
          /\ ClaimInflight
      BY <1>4 DEF CompleteProven
    <2>2. fin' \in [Proc -> FinType] /\ resume' \in Trigger \cup {""}
      <3>1. fin[p].trigger \in Trigger /\ [fin[p] EXCEPT !.at = "start"] \in FinType
        BY <1>1 DEF FinType
      <3> QED
        BY <1>1, <2>1, <3>1
    <2>3. notified' \in BOOLEAN
      BY <2>1
    <2>4. stage' \in Proc \cup {NoProc}
      BY <2>1 DEF MatInv, ControlTypes
    <2> HIDE DEF retry
    <2>5. ControlTypes'
      BY <1>2, <2>1, <2>2, <2>3, <2>4 DEF MatInv, ControlTypes, State
    <2>6. OneRun' /\ Barrier'
      BY <1>2 DEF MatInv, OneRun, Barrier
    <2>7. upstream = p \/ (attempt # 0 /\ run[attempt].at = "closing" /\ run[attempt].proc = p)
      BY <1>4, ProcAssumption DEF MatInv, Placed, Resting, Owning
    <2>8. upstream \in {p, NoProc}
      BY <2>7 DEF MatInv, Placed, Owning
    <2>9. AuthorityKept'
      BY <1>2, <2>1, <2>8, ProcAssumption DEF MatInv, AuthorityKept
    <2>10. Placed'
      BY <1>2, <2>1 DEF MatInv, Placed
    <2>11. Resting'
      BY <2>1 DEF Resting
    <2>12. DemandTypes' /\ Answering'
      BY <1>2, <2>1, Claiming
    <2> QED
      BY <2>5, <2>6, <2>9, <2>10, <2>11, <2>12 DEF MatInv
  <1> QED
    BY <1>3, <1>4

\* A step that leaves requests, runs and processes alone.
LEMMA OnlyWatchers ==
  ASSUME MatInv, ControlTypes',
         UNCHANGED <<state, trigger, attempt, generation, pin, run, processVars, demandVars>>
  PROVE  MatInv'
  <1>1. Control'
    BY ControlKept
  <1>2. DemandTypes' /\ Answering'
    BY DemandsKept DEF demandVars
  <1> QED
    BY <1>1, <1>2 DEF MatInv, Control

\* The replacement after the proof.
LEMMA Replacing == ASSUME MatInv, NEW p \in Proc, StartAfterRetirement(p) PROVE MatInv'
  <1>1. /\ StartMaterialization(fin[p].trigger, run, req) /\ fin' = [fin EXCEPT ![p] = NoFinalizer]
        /\ UNCHANGED <<persistent, stopped, mon, sess, pin, notified, upstream, dead, retiring, stage,
                       cache, life, order, tracked, known, answers>>
    BY DEF StartAfterRetirement, procVars
  <1>2. /\ fin \in [Proc -> FinType] /\ run \in [Gen -> RunType] /\ req \in [Request -> ReqType]
    BY DEF MatInv, ControlTypes, DemandTypes
  <1>3. NoFinalizer \in FinType /\ fin[p].trigger \in Trigger
    BY <1>2 DEF FinType, NoFinalizer, Trigger
  <1>4. Begun(req)
    BY <1>1, <1>2, <1>3, Starting DEF processVars
  <1>5. fin' \in [Proc -> FinType]
    BY <1>1, <1>2, <1>3
  <1>6. ControlTypes'
    BY <1>1, <1>4, <1>5 DEF MatInv, ControlTypes, Begun
  <1>7. DemandTypes' /\ Answering'
    BY <1>1, <1>4, AnsweringKept DEF Begun
  <1> QED
    BY <1>4, <1>6, <1>7 DEF MatInv, Begun, Control

\* The retry loop and the monitor end with the owner.
LEMMA WatchersStop ==
  ASSUME MatInv, NEW p \in Proc, RetryStops(p) \/ MonitorStops(p)
  PROVE  MatInv'
  <1>1. /\ fin \in [Proc -> FinType] /\ NoFinalizer \in FinType
        /\ mon \in [Proc -> {"none", "watch", "retire"}]
    BY DEF MatInv, ControlTypes, FinType, NoFinalizer, Trigger
  <1>2. /\ fin' = [fin EXCEPT ![p] = NoFinalizer] \/ fin' = fin
        /\ mon' = [mon EXCEPT ![p] = "none"] \/ mon' = mon
        /\ UNCHANGED <<state, attempt, generation, trigger, resume, persistent, stopped, run, sess, pin,
                       notified, procVars, demandVars>>
    BY DEF RetryStops, MonitorStops
  <1>3. fin' \in [Proc -> FinType] /\ mon' \in [Proc -> {"none", "watch", "retire"}]
    BY <1>1, <1>2
  <1>4. ControlTypes'
    BY <1>2, <1>3 DEF MatInv, ControlTypes, procVars
  <1> QED
    BY <1>2, <1>4, OnlyWatchers DEF procVars, processVars

\* The monitor retires the process that exited.
LEMMA WatcherRetires == ASSUME MatInv, NEW p \in Proc, MonitorRetires(p) PROVE MatInv'
  <1>1. /\ mon' = [mon EXCEPT ![p] = "none"]
        /\ UNCHANGED <<attempt, generation, resume, persistent, stopped, run, sess, pin, notified,
                       upstream, stage, cache, life, order, req>>
    BY DEF MonitorRetires
  <1>2. mon' \in [Proc -> {"none", "watch", "retire"}] /\ run \in [Gen -> RunType]
    BY <1>1 DEF MatInv, ControlTypes
  <1>3. CASE MarkRetiring(p, "recover")
    <2>1. "recover" \in Trigger
      BY DEF Trigger
    <2>2. /\ Control' /\ state' \in State /\ dead' \in BOOLEAN /\ retiring' \in Proc
          /\ trigger' \in Trigger /\ fin' \in [Proc -> FinType]
      BY <1>1, <1>2, <1>3, <2>1, Marking
    <2>3. ControlTypes'
      BY <1>1, <1>2, <2>2 DEF MatInv, ControlTypes
    <2>4. DemandTypes' /\ Answering'
      BY <1>1, <1>3, Claiming DEF MarkRetiring
    <2> QED
      BY <2>2, <2>3, <2>4 DEF MatInv, Control
  <1>4. CASE UNCHANGED <<state, trigger, dead, retiring, fin, tracked, known, answers>>
    <2>1. ControlTypes'
      BY <1>1, <1>2, <1>4 DEF MatInv, ControlTypes
    <2> QED
      BY <1>1, <1>4, <2>1, OnlyWatchers DEF processVars, demandVars
  <1> QED
    BY <1>3, <1>4 DEF MonitorRetires

\* A run that a failure, a cancellation or its readiness is noted in.
LEMMA Noted ==
  ASSUME ControlTypes, attempt # 0, NEW r \in RunType, run' = [run EXCEPT ![attempt] = r],
         r.at = run[attempt].at, r.proc = run[attempt].proc, r.order = run[attempt].order,
         r.retry = run[attempt].retry
  PROVE  /\ run' \in [Gen -> RunType]
         /\ \A n \in Gen : /\ run'[n].at = run[n].at /\ run'[n].proc = run[n].proc
                           /\ run'[n].order = run[n].order /\ run'[n].retry = run[n].retry
  <1>1. attempt \in Gen
    BY Generations
  <1>2. run \in [Gen -> RunType]
    BY DEF ControlTypes
  <1> QED
    BY <1>1, <1>2

\* The first failure of the attempt is noted.
LEMMA NotesFailure ==
  ASSUME ControlTypes, attempt # 0, NEW why \in {"gone", "other"},
         run' = [run EXCEPT ![attempt] = Fails(@, why)]
  PROVE  /\ run' \in [Gen -> RunType]
         /\ \A n \in Gen : /\ run'[n].at = run[n].at /\ run'[n].proc = run[n].proc
                           /\ run'[n].order = run[n].order /\ run'[n].retry = run[n].retry
  <1> DEFINE r == Fails(run[attempt], why)
  <1>1. run[attempt] \in RunType
    BY Generations DEF ControlTypes
  <1>2. /\ r \in RunType /\ r.at = run[attempt].at /\ r.proc = run[attempt].proc
        /\ r.order = run[attempt].order /\ r.retry = run[attempt].retry
    BY <1>1 DEF RunType, Fails
  <1>3. run' = [run EXCEPT ![attempt] = r]
    OBVIOUS
  <1> HIDE DEF r
  <1> QED
    BY <1>2, <1>3, Noted

\* The exit of a process is seen.
LEMMA ExitSeen == ASSUME MatInv, NEW p \in Proc, MonitorExit(p) PROVE MatInv'
  <1>1. ControlTypes /\ fin \in [Proc -> FinType] /\ mon \in [Proc -> {"none", "watch", "retire"}]
    BY DEF MatInv, ControlTypes
  <1>2. UNCHANGED <<state, attempt, generation, trigger, resume, persistent, stopped, sess, pin,
                    notified, upstream, retiring, stage, cache, life, order, req>>
    BY DEF MonitorExit
  <1>3. mon' \in [Proc -> {"none", "watch", "retire"}]
    BY <1>1 DEF MonitorExit
  <1>4. CASE UNCHANGED <<dead, run, tracked, known, answers>>
    <2>1. fin' \in [Proc -> FinType]
      <3>1. \/ fin' = fin
            \/ retiring = p /\ fin' = [fin EXCEPT ![p] = [at |-> "closing", trigger |-> trigger]]
        BY DEF MonitorExit
      <3>2. retiring = p => trigger \in Trigger
        BY ProcAssumption DEF MatInv, Resting, ControlTypes
      <3>3. trigger \in Trigger => [at |-> "closing", trigger |-> trigger] \in FinType
        BY DEF FinType
      <3> QED
        BY <1>1, <3>1, <3>2, <3>3
    <2>2. ControlTypes'
      BY <1>1, <1>2, <1>3, <1>4, <2>1 DEF ControlTypes
    <2> QED
      BY <1>2, <1>4, <2>2, OnlyWatchers DEF processVars, demandVars
  <1>5. CASE /\ AttemptProc = p /\ dead' = TRUE /\ UNCHANGED fin
             /\ run' = [run EXCEPT ![attempt] = Fails(@, "other")]
             /\ ClaimInflight
    <2>1. attempt # 0
      BY <1>5, ProcAssumption DEF AttemptProc
    <2>2. /\ run' \in [Gen -> RunType]
          /\ \A n \in Gen : /\ run'[n].at = run[n].at /\ run'[n].proc = run[n].proc
                            /\ run'[n].order = run[n].order /\ run'[n].retry = run[n].retry
      BY <1>1, <1>5, <2>1, NotesFailure
    <2>3. ControlTypes'
      BY <1>1, <1>2, <1>3, <1>5, <2>2 DEF ControlTypes
    <2>4. OneRun'
      BY <1>2, <2>2 DEF MatInv, OneRun, Equipped
    <2>5. attempt \in Gen
      BY <1>1, <2>1, Generations
    <2>6. Placed'
      BY <1>2, <2>2, <2>5 DEF MatInv, Placed
    <2>7. Resting' /\ AuthorityKept' /\ Barrier'
      BY <1>2, <2>1 DEF MatInv, Resting, AuthorityKept, Barrier
    <2>8. DemandTypes' /\ Answering'
      BY <1>2, <1>5, Claiming
    <2> QED
      BY <2>3, <2>4, <2>6, <2>7, <2>8 DEF MatInv
  <1> QED
    BY <1>4, <1>5 DEF MonitorExit

\* The reader of the installed process marks it dead, and whoever waits is told.
LEMMA Marked == ASSUME MatInv, NEW p \in Proc, MarkUpstreamDead(p) PROVE MatInv'
  <1>1. /\ dead' = TRUE /\ ClaimInflight
        /\ UNCHANGED <<state, attempt, generation, trigger, resume, persistent, stopped, run, mon, fin,
                       sess, pin, notified, upstream, retiring, stage, cache, life, order, req>>
    BY DEF MarkUpstreamDead
  <1>2. ControlTypes'
    BY <1>1 DEF MatInv, ControlTypes
  <1>3. OneRun' /\ Placed' /\ Barrier' /\ AuthorityKept'
    BY <1>1 DEF MatInv, OneRun, Placed, Barrier, AuthorityKept
  <1>4. Resting'
    BY <1>1 DEF MatInv, Resting
  <1>5. DemandTypes' /\ Answering'
    BY <1>1, Claiming
  <1> QED
    BY <1>2, <1>3, <1>4, <1>5 DEF MatInv

-----------------------------------------------------------------------------
(* Discovery.                                                              *)

\* A response declares persistence, or fails the attempt.
LEMMA Staging == ASSUME MatInv, NEW p \in Proc, StageResponse(p) PROVE MatInv'
  <1>1. ControlTypes
    BY DEF MatInv
  <1>2. /\ UNCHANGED <<state, attempt, generation, trigger, resume, stopped, mon, fin, sess, pin,
                       notified, procVars, demandVars>>
        /\ persistent' \in {persistent, TRUE}
        /\ AttemptProc = p
    BY DEF StageResponse, Discovering
  <1>3. attempt # 0
    BY <1>2, ProcAssumption DEF AttemptProc
  <1>4. \/ run' = run
        \/ \E why \in {"gone", "other"} : run' = [run EXCEPT ![attempt] = Fails(@, why)]
    BY DEF StageResponse
  <1>5. /\ run' \in [Gen -> RunType]
        /\ \A n \in Gen : /\ run'[n].at = run[n].at /\ run'[n].proc = run[n].proc
                          /\ run'[n].order = run[n].order /\ run'[n].retry = run[n].retry
    <2>1. CASE run' = run
      BY <1>1, <2>1 DEF ControlTypes
    <2> QED
      BY <1>1, <1>3, <1>4, <2>1, NotesFailure
  <1>6. ControlTypes'
    <2>1. persistent' \in BOOLEAN
      BY <1>1, <1>2 DEF ControlTypes
    <2>2. UNCHANGED <<state, attempt, generation, trigger, resume, stopped, mon, fin, sess, pin,
                      notified, upstream, dead, retiring, stage, cache, life>>
      BY <1>2 DEF procVars
    <2> QED
      BY <1>1, <1>5, <2>1, <2>2 DEF ControlTypes
  <1>7. Control'
    BY <1>2, <1>5, ControlKept DEF procVars, processVars
  <1>8. DemandTypes' /\ Answering'
    BY <1>2, DemandsKept DEF demandVars
  <1> QED
    BY <1>6, <1>7, <1>8 DEF MatInv, Control

\* Waiting requests that end without an answer.
LEMMA Dropping ==
  ASSUME MatInv, NEW D, D \subseteq Waiting, order' \in Seq(Request),
         req' = [d \in Request |-> IF d \in D THEN Reader("cancelled") ELSE req[d]],
         known' \subseteq known, UNCHANGED <<tracked, answers>>
  PROVE  DemandTypes' /\ Answering'
  <1> USE DEF MatInv
  <1>1. \A d \in Request : req'[d] = IF d \in D THEN Reader("cancelled") ELSE req[d]
    OBVIOUS
  <1>2. req' \in [Request -> ReqType]
    BY Readers DEF DemandTypes
  <1>3. DemandTypes'
    BY <1>2 DEF DemandTypes
  <1>4. Answering'
    BY <1>1, Readers DEF Answering, Waiting, DemandTypes
  <1> QED
    BY <1>3, <1>4

\* The discovery is committed, and an isolated classification closes sessions.
LEMMA Committing ==
  ASSUME MatInv, NEW p \in Proc, NEW E \in SUBSET Session, CommitMaterializationCache(p, E)
  PROVE  MatInv'
  <1> DEFINE gone == {d \in Waiting : SessionOf[d] \in E}
             r == [run[attempt] EXCEPT !.ready = TRUE]
  <1>1. ControlTypes
    BY DEF MatInv
  <1>2. /\ AttemptProc = p /\ cache' = p /\ stage' = NoProc
        /\ run' = [run EXCEPT ![attempt].ready = TRUE]
        /\ sess' = [s \in Session |-> IF s \in E THEN "closed" ELSE sess[s]]
        /\ req' = [d \in Request |-> IF d \in gone THEN Reader("cancelled") ELSE req[d]]
        /\ order' = order \/ order' \in Keeping(order, Pending \ gone)
        /\ UNCHANGED <<state, attempt, generation, trigger, resume, persistent, stopped, mon, fin, pin,
                       notified, upstream, dead, retiring, life, tracked, known, answers>>
    BY DEF CommitMaterializationCache, Discovering
  <1>3. attempt # 0
    BY <1>2, ProcAssumption DEF AttemptProc
  <1>4. run[attempt] \in RunType
    BY <1>1, <1>3, Generations DEF ControlTypes
  <1>5. /\ r \in RunType /\ r.at = run[attempt].at /\ r.proc = run[attempt].proc
        /\ r.order = run[attempt].order /\ r.retry = run[attempt].retry
    BY <1>4 DEF RunType
  <1>6. run' = [run EXCEPT ![attempt] = r]
    BY <1>2
  <1>7. order' \in Seq(Request)
    BY <1>2, KeptOrder DEF MatInv, DemandTypes
  <1>8. gone \subseteq Waiting
    OBVIOUS
  <1>9. DemandTypes' /\ Answering'
    <2> HIDE DEF gone
    <2> QED
      BY <1>2, <1>7, <1>8, Dropping
  <1> HIDE DEF r, gone
  <1>10. /\ run' \in [Gen -> RunType]
         /\ \A n \in Gen : /\ run'[n].at = run[n].at /\ run'[n].proc = run[n].proc
                           /\ run'[n].order = run[n].order /\ run'[n].retry = run[n].retry
    BY <1>1, <1>3, <1>5, <1>6, Noted
  <1>11. ControlTypes'
    <2>1. sess' \in [Session -> {"out", "open", "closed", "gone"}]
      BY <1>1, <1>2 DEF ControlTypes
    <2> QED
      BY <1>1, <1>2, <1>10, <2>1 DEF ControlTypes
  <1>12. Control'
    BY <1>2, <1>10, ControlKept DEF processVars
  <1> QED
    BY <1>9, <1>11, <1>12 DEF MatInv, Control

-----------------------------------------------------------------------------
(* Requests.                                                               *)

\* A request that was not published yet is unanswered and untracked.
LEMMA Unpublished ==
  ASSUME MatInv, NEW d \in Request, req[d].at \in {"new", "waiting", "capture", "bind"}
  PROVE  answers[d] = 0 /\ tracked[d] = NoProc
  BY DEF MatInv, Answering

\* The reader goes to the process at once, is refused, or meets its end waiting.
LEMMA Handling ==
  ASSUME MatInv, NEW d \in Request, RequestDirect(d) \/ RequestRefused(d) \/ DemandEnds(d)
  PROVE  MatInv'
  <1>1. req \in [Request -> ReqType] /\ req[d] \in ReqType /\ order \in Seq(Request)
    BY DEF MatInv, DemandTypes
  <1>2. UNCHANGED controlVars /\ UNCHANGED <<tracked, known>>
    BY DEF RequestDirect, RequestRefused, DemandEnds, controlVars
  <1>3. req[d].at \in {"new", "waiting"} /\ order' \in Seq(Request)
    BY <1>1 DEF RequestDirect, RequestRefused, DemandEnds, Arrives, Waiting
  <1>4. tracked[d] = NoProc
    BY <1>3, Unpublished
  <1>5. \/ req' = [req EXCEPT ![d].at = "capture"] /\ answers' = answers
        \/ req' = [req EXCEPT ![d] = Reader("cancelled")] /\ answers' = answers
        \/ req' = [req EXCEPT ![d] = Reader("done")] /\ answers' = Answer({d})
    BY DEF RequestDirect, RequestRefused, DemandEnds
  <1> DEFINE x == [req[d] EXCEPT !.at = "capture"]
  <1>6. x \in ReqType /\ x.at = "capture"
    BY <1>1, ReqRecord
  <1>7. req' = [req EXCEPT ![d].at = "capture"] => req' = [req EXCEPT ![d] = x]
    BY <1>1
  <1> HIDE DEF x
  <1>8. CASE req' = [req EXCEPT ![d] = x] /\ answers' = answers
    BY <1>2, <1>3, <1>4, <1>6, <1>8, OneMoves, OnlyDemands
  <1>9. CASE req' = [req EXCEPT ![d] = Reader("cancelled")] /\ answers' = answers
    BY <1>2, <1>3, <1>4, <1>9, Readers, OneMoves, OnlyDemands
  <1>10. CASE req' = [req EXCEPT ![d] = Reader("done")] /\ answers' = Answer({d})
    BY <1>2, <1>3, <1>4, <1>10, Readers, OneMoves, OnlyDemands
  <1> QED
    BY <1>5, <1>7, <1>8, <1>9, <1>10

\* enqueueLocalDemand keeps the request waiting, and may begin a generation for it.
LEMMA Queueing == ASSUME MatInv, NEW d \in Request, RequestQueued(d) PROVE MatInv'
  <1> DEFINE x == [req[d] EXCEPT !.at = "waiting", !.gen = IF MustWait THEN 0 ELSE attempt]
             q == [req EXCEPT ![d] = x]
  <1>1. ControlTypes /\ req \in [Request -> ReqType] /\ req[d] \in ReqType /\ order \in Seq(Request)
    BY DEF MatInv, DemandTypes
  <1>2. (IF MustWait THEN 0 ELSE attempt) \in 0 .. MaxGen
    <2>1. attempt \in Nat /\ attempt <= MaxGen
      BY <1>1, Generations, GenAssumption
    <2> QED
      BY <2>1, GenAssumption
  <1>3. x \in ReqType /\ x.at = "waiting"
    BY <1>1, <1>2 DEF ReqType
  <1>4. req[d].at = "new" /\ order' = Append(order, d)
        /\ UNCHANGED <<resume, persistent, stopped, mon, fin, sess, pin, notified, upstream, dead,
                       retiring, stage, cache, life, tracked, known, answers>>
    BY DEF RequestQueued, Arrives, procVars
  <1>5. [req EXCEPT ![d].at = "waiting", ![d].gen = IF MustWait THEN 0 ELSE attempt] = q
    BY <1>1
  <1>6. \/ req' = q /\ UNCHANGED <<generation, attempt, state, trigger, run>>
        \/ MayStart /\ NewGeneration("demand", run, q)
    BY <1>5 DEF RequestQueued
  <1> HIDE DEF x
  <1>7. q \in [Request -> ReqType] /\ q[d].at = "waiting" /\ \A e \in Request \ {d} : q[e] = req[e]
    BY <1>1, <1>3
  <1> HIDE DEF q
  <1>8. /\ Control' /\ run' \in [Gen -> RunType] /\ req' \in [Request -> ReqType]
        /\ generation' \in 0 .. MaxGen /\ attempt' \in 0 .. generation'
        /\ state' \in State /\ trigger' \in Trigger \cup {""}
        /\ \A e \in Request : req'[e].at = q[e].at
    <2>1. CASE req' = q /\ UNCHANGED <<generation, attempt, state, trigger, run>>
      <3>1. Control'
        BY <1>4, <2>1, ControlKept DEF processVars
      <3> QED
        BY <1>1, <1>7, <2>1, <3>1 DEF ControlTypes
    <2>2. CASE MayStart /\ NewGeneration("demand", run, q)
      <3>1. "demand" \in Trigger /\ run \in [Gen -> RunType]
        BY <1>1 DEF Trigger, ControlTypes
      <3> QED
        BY <1>4, <1>7, <2>2, <3>1, Beginning DEF processVars
    <2> QED
      BY <1>6, <2>1, <2>2
  <1>9. ControlTypes'
    BY <1>1, <1>4, <1>8 DEF ControlTypes
  <1>10. DemandTypes'
    <2>1. order' \in Seq(Request)
      BY <1>1, <1>4
    <2> QED
      BY <1>4, <1>8, <2>1 DEF MatInv, DemandTypes
  <1>11. Answering'
    BY <1>4, <1>7, <1>8 DEF MatInv, Answering
  <1> QED
    BY <1>8, <1>9, <1>10, <1>11 DEF MatInv, Control

\* The reader carries the request: the process it finds, the tracker, the write.
LEMMA Carrying ==
  ASSUME MatInv, NEW d \in Request, Capture(d) \/ WriteSettled(d)
  PROVE  MatInv'
  <1>1. req \in [Request -> ReqType] /\ req[d] \in ReqType /\ order \in Seq(Request)
    BY DEF MatInv, DemandTypes
  <1>2. UNCHANGED controlVars /\ UNCHANGED <<order, tracked, known>>
    BY DEF Capture, WriteSettled, controlVars
  <1>3. CASE Capture(d)
    <2> DEFINE pc == IF upstream = NoProc THEN "failed" ELSE "bind"
               x == [req[d] EXCEPT !.up = upstream, !.at = pc]
    <2>1. x \in ReqType /\ x.at = pc
      BY <1>1 DEF ReqType, MatInv, ControlTypes
    <2>2. req' = [req EXCEPT ![d] = x] /\ req[d].at = "capture"
          /\ answers' = IF upstream = NoProc THEN Answer({d}) ELSE answers
      BY <1>1, <1>3 DEF Capture
    <2>3. tracked[d] = NoProc
      BY <2>2, Unpublished
    <2> HIDE DEF x
    <2> QED
      BY <1>1, <1>2, <2>1, <2>2, <2>3, OneMoves, OnlyDemands
  <1>4. CASE WriteSettled(d)
    <2>1. /\ req' = [req EXCEPT ![d] = Reader("done")] /\ answers' = answers
      BY <1>4 DEF WriteSettled
    <2> QED
      BY <1>1, <1>2, <2>1, Readers, OneMoves, OnlyDemands
  <1> QED
    BY <1>3, <1>4

\* The bind callback puts the request into the tracker.
LEMMA Publication == ASSUME MatInv, NEW d \in Request, Publish(d) PROVE MatInv'
  <1>1. /\ req[d].at = "bind" /\ req' = [req EXCEPT ![d].at = "write"]
        /\ tracked' = [tracked EXCEPT ![d] = req[d].up] /\ known' = known \cup {d}
        /\ UNCHANGED <<order, answers>>
    BY DEF Publish
  <1>2. UNCHANGED controlVars
    BY DEF Publish, controlVars
  <1>3. req \in [Request -> ReqType] /\ req[d] \in ReqType
    BY DEF MatInv, DemandTypes
  <1>4. /\ req' \in [Request -> ReqType] /\ req'[d].at = "write"
        /\ \A e \in Request \ {d} : req'[e] = req[e]
    BY <1>1, <1>3, ReqRecord
  <1>5. /\ tracked' \in [Request -> Proc \cup {NoProc}]
        /\ \A e \in Request \ {d} : tracked'[e] = tracked[e]
    BY <1>1, <1>3 DEF MatInv, DemandTypes, ReqType
  <1>6. DemandTypes'
    BY <1>1, <1>4, <1>5 DEF MatInv, DemandTypes
  <1>7. answers[d] = 0
    BY <1>1, Unpublished
  <1>8. Answering'
    BY <1>1, <1>4, <1>5, <1>7 DEF MatInv, Answering
  <1> QED
    BY <1>2, <1>6, <1>8, OnlyDemands

\* The write succeeds, or fails and is answered by whoever holds the request.
LEMMA Writing == ASSUME MatInv, NEW d \in Request, WriteLine(d) PROVE MatInv'
  <1>1. req \in [Request -> ReqType] /\ req[d] \in ReqType /\ order \in Seq(Request)
    BY DEF MatInv, DemandTypes
  <1>2. UNCHANGED controlVars /\ req[d].at = "write" /\ order' = order
    BY DEF WriteLine, controlVars
  <1>3. CASE req' = [req EXCEPT ![d] = Reader("done")] /\ UNCHANGED <<tracked, known, answers>>
    BY <1>1, <1>2, <1>3, Readers, OneMoves, OnlyDemands
  <1>4. CASE /\ req' = [req EXCEPT ![d].at = "failed"]
             /\ answers' = Answer({d} \cap Tracked)
             /\ tracked' = [tracked EXCEPT ![d] = NoProc]
             /\ known' = IF d \in Tracked THEN known \ {d} ELSE known
    <2>1. /\ req' \in [Request -> ReqType] /\ req'[d].at = "failed"
          /\ \A e \in Request \ {d} : req'[e] = req[e]
      BY <1>1, <1>4, ReqRecord
    <2>2. /\ tracked' \in [Request -> Proc \cup {NoProc}] /\ tracked'[d] = NoProc
          /\ \A e \in Request \ {d} : tracked'[e] = tracked[e]
      BY <1>4 DEF MatInv, DemandTypes
    <2>3. /\ answers' \in [Request -> Nat]
          /\ answers'[d] = IF d \in Tracked THEN answers[d] + 1 ELSE answers[d]
          /\ \A e \in Request \ {d} : answers'[e] = answers[e]
      BY <1>4 DEF MatInv, DemandTypes, Answer
    <2>4. known' \subseteq Request
      BY <1>4 DEF MatInv, DemandTypes
    <2>5. DemandTypes'
      BY <1>1, <1>2, <2>1, <2>2, <2>3, <2>4 DEF DemandTypes
    <2>6. d \in Tracked => answers[d] = 0
      BY DEF MatInv, Answering, Tracked
    <2>7. Answering'
      BY <2>1, <2>2, <2>3, <2>6 DEF MatInv, Answering
    <2> QED
      BY <1>2, <2>5, <2>7, OnlyDemands
  <1> QED
    BY <1>3, <1>4 DEF WriteLine

\* A failed write retires its process, or begins a generation where there was none.
LEMMA WriteRetires == ASSUME MatInv, NEW d \in Request, WriteFailed(d) PROVE MatInv'
  <1> DEFINE done == [req EXCEPT ![d] = Reader("done")]
             x == [req[d] EXCEPT !.at = "settling"]
  <1>1. /\ req \in [Request -> ReqType] /\ req[d] \in ReqType /\ order \in Seq(Request)
        /\ run \in [Gen -> RunType] /\ "recover" \in Trigger
    BY DEF MatInv, DemandTypes, ControlTypes, Trigger
  <1>2. /\ req[d].at = "failed"
        /\ UNCHANGED <<persistent, stopped, mon, sess, pin, notified, upstream, stage, cache, life, order>>
    BY DEF WriteFailed
  <1>3. tracked[d] = NoProc
    BY <1>2 DEF MatInv, Answering
  <1>4. x \in ReqType /\ x.at = "settling"
    BY <1>1, ReqRecord
  <1>5. done \in [Request -> ReqType] /\ done[d].at = "done" /\ \A e \in Request \ {d} : done[e] = req[e]
    BY <1>1, Readers
  <1>6. CASE /\ StartMaterialization("recover", run, done)
             /\ UNCHANGED <<dead, retiring, fin, tracked, known, answers>>
    <2> HIDE DEF done
    <2>1. Begun(done)
      BY <1>1, <1>2, <1>5, <1>6, Starting DEF processVars
    <2>2. ControlTypes'
      BY <1>2, <1>6, <2>1 DEF MatInv, ControlTypes, Begun
    <2>3. DemandTypes'
      BY <1>1, <1>2, <1>6, <2>1 DEF MatInv, DemandTypes, Begun
    <2>4. Answering'
      BY <1>2, <1>5, <1>6, <2>1 DEF MatInv, Answering, Begun
    <2> QED
      BY <2>1, <2>2, <2>3, <2>4 DEF MatInv, Begun, Control
  <1>7. CASE /\ MarkRetiring(req[d].up, "recover") /\ req' = [req EXCEPT ![d].at = "settling"]
             /\ UNCHANGED <<generation, attempt, resume, run>>
    <2>1. /\ Control' /\ state' \in State /\ dead' \in BOOLEAN /\ retiring' \in Proc
          /\ trigger' \in Trigger /\ fin' \in [Proc -> FinType]
      BY <1>1, <1>2, <1>7, Marking
    <2>2. ControlTypes'
      BY <1>2, <1>7, <2>1 DEF MatInv, ControlTypes
    <2>3. /\ req' \in [Request -> ReqType] /\ req'[d].at = "settling"
          /\ \A e \in Request \ {d} : req'[e] = req[e]
      BY <1>1, <1>4, <1>7
    <2>4. /\ answers' = Answer(Tracked \cap known) /\ known' = {}
          /\ tracked' = [e \in Request |-> IF e \in known THEN NoProc ELSE tracked[e]]
      BY <1>7 DEF MarkRetiring, ClaimInflight
    <2>5. /\ answers' \in [Request -> Nat] /\ tracked' \in [Request -> Proc \cup {NoProc}]
          /\ \A e \in Request :
               /\ answers'[e] = IF e \in Tracked \cap known THEN answers[e] + 1 ELSE answers[e]
               /\ tracked'[e] = IF e \in known THEN NoProc ELSE tracked[e]
      BY <2>4 DEF MatInv, DemandTypes, Answer
    <2>6. DemandTypes'
      BY <1>1, <1>2, <2>3, <2>4, <2>5 DEF DemandTypes
    <2>7. Answering'
      <3>1. d \notin Tracked /\ answers[d] \in {0, 1}
        BY <1>3 DEF MatInv, Answering, Tracked
      <3>2. /\ req'[d].at = "settling" /\ answers'[d] \in {0, 1} /\ tracked'[d] = NoProc
        BY <1>3, <2>3, <2>5, <3>1
      <3>3. \A e \in Request \ {d} :
              /\ answers'[e] \in {0, 1}
              /\ req'[e].at \in {"new", "waiting", "capture", "bind"} =>
                   answers'[e] = 0 /\ tracked'[e] = NoProc
              /\ tracked'[e] # NoProc => answers'[e] = 0 /\ req'[e].at \in {"write", "done"}
        BY <2>3, <2>5 DEF MatInv, Answering, Tracked
      <3> QED
        BY <3>2, <3>3 DEF Answering
    <2> QED
      BY <2>1, <2>2, <2>6, <2>7 DEF MatInv, Control
  <1>8. CASE /\ req' = done
             /\ UNCHANGED <<generation, attempt, state, trigger, resume, run, dead, retiring, fin,
                            tracked, known, answers>>
    <2>1. UNCHANGED controlVars
      BY <1>2, <1>8 DEF controlVars, procVars
    <2> QED
      BY <1>1, <1>2, <1>3, <1>8, <2>1, Readers, OneMoves, OnlyDemands
  <1> QED
    BY <1>6, <1>7, <1>8 DEF WriteFailed

\* handleUpstreamMessage: a tracked request is answered and forgotten.
LEMMA Responding == ASSUME MatInv, NEW d \in Request, Respond(d) PROVE MatInv'
  <1>1. /\ d \in Tracked /\ req[d].at = "done"
        /\ tracked' = [tracked EXCEPT ![d] = NoProc] /\ known' = known \ {d}
        /\ answers' = Answer({d}) /\ cache' \in {cache, tracked[d]}
        /\ UNCHANGED <<state, attempt, generation, trigger, resume, persistent, stopped, run, mon, fin,
                       sess, pin, notified, upstream, dead, retiring, stage, life, order, req>>
    BY DEF Respond
  <1>2. /\ tracked' \in [Request -> Proc \cup {NoProc}] /\ tracked'[d] = NoProc
        /\ \A e \in Request \ {d} : tracked'[e] = tracked[e]
    BY <1>1 DEF MatInv, DemandTypes
  <1>3. /\ answers' \in [Request -> Nat] /\ answers'[d] = answers[d] + 1
        /\ \A e \in Request \ {d} : answers'[e] = answers[e]
    BY <1>1 DEF MatInv, DemandTypes, Answer
  <1>4. DemandTypes'
    BY <1>1, <1>2, <1>3 DEF MatInv, DemandTypes
  <1>5. answers[d] = 0
    BY <1>1 DEF MatInv, Answering, Tracked
  <1>6. Answering'
    <2>1. req'[d].at = "done" /\ answers'[d] = 1 /\ tracked'[d] = NoProc
      BY <1>1, <1>2, <1>3, <1>5
    <2>2. \A e \in Request \ {d} :
            req'[e] = req[e] /\ answers'[e] = answers[e] /\ tracked'[e] = tracked[e]
      BY <1>1, <1>2, <1>3
    <2> QED
      BY <2>1, <2>2 DEF MatInv, Answering
  <1>7. ControlTypes'
    <2>1. cache' \in Proc \cup {NoProc, Template}
      BY <1>1 DEF MatInv, ControlTypes, DemandTypes
    <2> QED
      BY <1>1, <2>1 DEF MatInv, ControlTypes
  <1>8. Control'
    BY <1>1, ControlKept DEF processVars
  <1> QED
    BY <1>4, <1>6, <1>7, <1>8 DEF MatInv, Control

-----------------------------------------------------------------------------
(* Sessions, processes, restart pins and the end of the owner.             *)

\* A session comes, or its peer hangs up.
LEMMA Sessions == ASSUME MatInv, NEW s \in Session, SessionStep(s) PROVE MatInv'
  <1>1. UNCHANGED <<state, attempt, generation, trigger, resume, persistent, stopped, run, mon, fin,
                    pin, notified, procVars, demandVars>>
    BY DEF SessionStep
  <1>2. sess' \in [Session -> {"out", "open", "closed", "gone"}]
    BY DEF SessionStep, MatInv, ControlTypes
  <1>3. ControlTypes'
    BY <1>1, <1>2 DEF MatInv, ControlTypes, procVars
  <1> QED
    BY <1>1, <1>3, OnlyWatchers DEF procVars, processVars

\* The last session of a disposable attempt cancels it.
LEMMA Removing == ASSUME MatInv, NEW s \in Session, RemoveSession(s) PROVE MatInv'
  <1> DEFINE D == {d \in Waiting : SessionOf[d] = s}
             r == [run[attempt] EXCEPT !.cancel = TRUE]
  <1>1. ControlTypes
    BY DEF MatInv
  <1>2. /\ sess' = [sess EXCEPT ![s] = "gone"]
        /\ req' = [d \in Request |-> IF SessionOf[d] = s /\ d \in Waiting
                                     THEN Reader("cancelled") ELSE req[d]]
        /\ known' = {d \in known : SessionOf[d] # s}
        /\ run' = run \/ (attempt # 0 /\ run' = [run EXCEPT ![attempt].cancel = TRUE])
        /\ UNCHANGED <<state, attempt, generation, trigger, resume, persistent, stopped, mon, fin, pin,
                       notified, upstream, dead, retiring, stage, cache, life, order, tracked, answers>>
    BY DEF RemoveSession, procVars
  <1>3. attempt # 0 => run[attempt] \in RunType
    BY <1>1, Generations DEF ControlTypes
  <1>4. attempt # 0 => /\ r \in RunType /\ r.at = run[attempt].at /\ r.proc = run[attempt].proc
                       /\ r.order = run[attempt].order /\ r.retry = run[attempt].retry
    BY <1>3 DEF RunType
  <1>5. run' = run \/ (attempt # 0 /\ run' = [run EXCEPT ![attempt] = r])
    BY <1>2
  <1>6. req' = [d \in Request |-> IF d \in D THEN Reader("cancelled") ELSE req[d]] /\ D \subseteq Waiting
    BY <1>2
  <1> HIDE DEF r, D
  <1>7. /\ run' \in [Gen -> RunType]
        /\ \A n \in Gen : /\ run'[n].at = run[n].at /\ run'[n].proc = run[n].proc
                          /\ run'[n].order = run[n].order /\ run'[n].retry = run[n].retry
    <2>1. CASE run' = run
      BY <1>1, <2>1 DEF ControlTypes
    <2>2. CASE attempt # 0 /\ run' = [run EXCEPT ![attempt] = r]
      BY <1>1, <1>4, <2>2, Noted
    <2> QED
      BY <1>5, <2>1, <2>2
  <1>8. ControlTypes'
    <2>1. sess' \in [Session -> {"out", "open", "closed", "gone"}]
      BY <1>1, <1>2 DEF ControlTypes
    <2> QED
      BY <1>1, <1>2, <1>7, <2>1 DEF ControlTypes
  <1>9. Control'
    BY <1>2, <1>7, ControlKept DEF processVars
  <1>10. DemandTypes' /\ Answering'
    <2>1. order' \in Seq(Request) /\ known' \subseteq known
      BY <1>2 DEF MatInv, DemandTypes
    <2> QED
      BY <1>2, <1>6, <2>1, Dropping
  <1> QED
    BY <1>8, <1>9, <1>10 DEF MatInv, Control

\* A process exits, and its tree is proven gone.
LEMMA Processes == ASSUME MatInv, NEW p \in Proc, ProcessStep(p) PROVE MatInv'
  <1>1. UNCHANGED <<state, attempt, generation, trigger, resume, persistent, stopped, run, mon, fin,
                    sess, pin, notified, upstream, dead, retiring, stage, cache, demandVars>>
    BY DEF ProcessStep
  <1>2. /\ life' \in [Proc -> {"unused", "running", "exited", "proven"}]
        /\ life[p] \in {"running", "exited"} /\ life'[p] # "unused"
        /\ \A o \in Proc \ {p} : life'[o] = life[o]
    BY DEF ProcessStep, MatInv, ControlTypes
  <1>3. ControlTypes'
    BY <1>1, <1>2 DEF MatInv, ControlTypes
  <1>4. OneRun' /\ Resting' /\ Barrier'
    BY <1>1 DEF MatInv, OneRun, Resting, Barrier
  <1>5. Placed'
    BY <1>1, <1>2 DEF MatInv, Placed
  <1>6. AuthorityKept'
    BY <1>1, <1>2 DEF MatInv, AuthorityKept
  <1>7. DemandTypes' /\ Answering'
    BY <1>1, DemandsKept DEF demandVars
  <1> QED
    BY <1>3, <1>4, <1>5, <1>6, <1>7 DEF MatInv

\* stopMaterialization fails the attempt and what is waiting.
LEMMA Stopping == ASSUME MatInv, StopMaterialization PROVE MatInv'
  <1>1. ControlTypes
    BY DEF MatInv
  <1>2. /\ stopped' = TRUE /\ FailDemands(Waiting)
        /\ run' = IF attempt = 0 THEN run ELSE [run EXCEPT ![attempt] = Fails(@, "other")]
        /\ UNCHANGED <<state, attempt, generation, trigger, resume, persistent, mon, fin, sess, pin,
                       notified, upstream, dead, retiring, stage, cache, life, tracked, known>>
    BY DEF StopMaterialization, procVars
  <1>3. /\ run' \in [Gen -> RunType]
        /\ \A n \in Gen : /\ run'[n].at = run[n].at /\ run'[n].proc = run[n].proc
                          /\ run'[n].order = run[n].order /\ run'[n].retry = run[n].retry
    <2>1. CASE attempt = 0
      BY <1>1, <1>2, <2>1 DEF ControlTypes
    <2>2. CASE attempt # 0
      BY <1>1, <1>2, <2>2, NotesFailure
    <2> QED
      BY <2>1, <2>2
  <1>4. ControlTypes'
    BY <1>1, <1>2, <1>3 DEF ControlTypes
  <1>5. Control'
    BY <1>2, <1>3, ControlKept DEF processVars
  <1>6. DemandTypes' /\ Answering'
    BY <1>2, Failing
  <1> QED
    BY <1>4, <1>5, <1>6 DEF MatInv, Control

\* AcquireRestartPin finds an attempt to wait for, or none.
LEMMA PinTaken == ASSUME MatInv, PinAcquire PROVE MatInv'
  <1>1. /\ pin' = [at |-> IF attempt = 0 THEN "check" ELSE "wait", gen |-> attempt]
        /\ resume' = IF attempt # 0 THEN (IF resume = "" THEN run[attempt].trigger ELSE resume)
                     ELSE IF persistent THEN "persistent" ELSE resume
        /\ UNCHANGED <<state, attempt, generation, trigger, persistent, stopped, run, mon, fin, sess,
                       notified, upstream, dead, retiring, stage, cache, life, demandVars>>
    BY DEF PinAcquire, procVars
  <1>2. ControlTypes /\ attempt \in 0 .. MaxGen /\ (attempt # 0 => attempt \in Gen)
    <2>1. ControlTypes
      BY DEF MatInv
    <2>2. attempt \in Nat /\ generation \in Nat /\ attempt <= generation /\ generation <= MaxGen
          /\ (attempt # 0 => attempt \in Gen)
      BY <2>1, Generations
    <2> QED
      BY <2>1, <2>2, GenAssumption
  <1>3. pin' \in PinType
    BY <1>1, <1>2 DEF PinType
  <1>4. resume' \in Trigger \cup {""}
    <2>1. attempt # 0 => run[attempt].trigger \in Trigger
      BY <1>2 DEF ControlTypes, RunType
    <2>2. resume \in Trigger \cup {""} /\ "persistent" \in Trigger
      BY <1>2 DEF ControlTypes, Trigger
    <2> QED
      BY <1>1, <2>1, <2>2
  <1>5. ControlTypes'
    BY <1>1, <1>2, <1>3, <1>4 DEF ControlTypes
  <1>6. OneRun' /\ Placed' /\ Resting' /\ AuthorityKept'
    BY <1>1 DEF MatInv, OneRun, Placed, Resting, AuthorityKept
  <1>7. Barrier'
    BY <1>1, <1>2 DEF Barrier
  <1>8. DemandTypes' /\ Answering'
    BY <1>1, DemandsKept DEF demandVars
  <1> QED
    BY <1>5, <1>6, <1>7, <1>8 DEF MatInv

\* The barrier goes on: past an attempt that settled, to the pin, or to its release.
LEMMA PinMoves ==
  ASSUME MatInv, PinSettled \/ PinCancels \/ PinGivesUp \/ PinHolds
  PROVE  MatInv'
  <1>1. ControlTypes /\ run \in [Gen -> RunType] /\ pin \in PinType
    BY DEF MatInv, ControlTypes
  <1>2. UNCHANGED <<state, attempt, generation, trigger, resume, persistent, stopped, mon, fin, sess,
                    notified, procVars, demandVars>>
    BY DEF PinSettled, PinCancels, PinGivesUp, PinHolds
  <1>3. PICK pc \in {"check", "cancelled", "held", "release"} : pin' = [pin EXCEPT !.at = pc]
    BY DEF PinSettled, PinCancels, PinGivesUp, PinHolds
  <1>4. pin' \in PinType /\ pin'.at = pc /\ pin'.gen = pin.gen
    BY <1>1, <1>3 DEF PinType
  <1>5. /\ run' \in [Gen -> RunType]
        /\ \A n \in Gen : /\ run'[n].at = run[n].at /\ run'[n].proc = run[n].proc
                          /\ run'[n].order = run[n].order /\ run'[n].retry = run[n].retry
    <2>1. CASE run' = run
      BY <1>1, <2>1
    <2>2. CASE PinCancels
      <3> DEFINE r == [run[pin.gen] EXCEPT !.cancel = TRUE]
      <3>1. pin.gen \in Gen
        BY <2>2 DEF PinCancels, MatInv, Barrier
      <3>2. /\ r \in RunType /\ r.at = run[pin.gen].at /\ r.proc = run[pin.gen].proc
            /\ r.order = run[pin.gen].order /\ r.retry = run[pin.gen].retry
        <4>1. run[pin.gen] \in RunType
          BY <1>1, <3>1
        <4> QED
          BY <4>1 DEF RunType
      <3>3. run' = [run EXCEPT ![pin.gen] = r]
        BY <2>2 DEF PinCancels
      <3> HIDE DEF r
      <3> QED
        BY <1>1, <3>1, <3>2, <3>3
    <2> QED
      BY <2>1, <2>2 DEF PinSettled, PinGivesUp, PinHolds
  <1>6. ControlTypes'
    BY <1>1, <1>2, <1>4, <1>5 DEF ControlTypes, procVars
  <1>7. OneRun'
    BY <1>2, <1>5 DEF MatInv, OneRun, Equipped
  <1>8. Placed'
    <2>1. attempt # 0 => attempt \in Gen
      BY <1>1, Generations
    <2> QED
      BY <1>2, <1>5, <2>1 DEF MatInv, Placed, procVars
  <1>9. Resting' /\ AuthorityKept'
    BY <1>2 DEF MatInv, Resting, AuthorityKept, procVars
  <1>10. Barrier'
    <2>1. CASE PinSettled
      <3>1. pin.gen \in Gen /\ attempt \in {0, pin.gen} /\ run[pin.gen].at \notin Active
        BY <2>1 DEF PinSettled, MatInv, Barrier, Active, Without, Owning, Giving
      <3>2. attempt = 0
        BY <3>1 DEF MatInv, OneRun
      <3> QED
        BY <1>2, <2>1, <3>2, <1>4 DEF PinSettled, Barrier
    <2>2. CASE PinCancels
      <3>1. pin.at = "wait" /\ pin'.at = "cancelled"
        BY <1>1, <2>2 DEF PinCancels, PinType
      <3> QED
        BY <1>2, <1>4, <3>1 DEF MatInv, Barrier
    <2>3. CASE PinGivesUp
      <3>1. pin'.at = "release"
        BY <1>1, <2>3 DEF PinGivesUp, PinType
      <3> QED
        BY <3>1 DEF Barrier
    <2>4. CASE PinHolds
      <3>1. pin.at \in {"check", "held"} /\ pin'.at \in {"release", "held"}
        BY <1>1, <2>4 DEF PinHolds, PinType
      <3> QED
        BY <1>2, <3>1 DEF MatInv, Barrier
    <2> QED
      BY <2>1, <2>2, <2>3, <2>4
  <1>11. DemandTypes' /\ Answering'
    BY <1>2, DemandsKept DEF demandVars
  <1> QED
    BY <1>6, <1>7, <1>8, <1>9, <1>10, <1>11 DEF MatInv

\* releaseRestartPin resumes what the pin held back.
LEMMA PinReleases == ASSUME MatInv, PinReleased PROVE MatInv'
  <1>1. /\ pin' = [at |-> "idle", gen |-> 0] /\ ResumeMaterialization(run)
        /\ UNCHANGED <<persistent, stopped, mon, fin, sess, notified, upstream, dead, retiring, stage,
                       cache, life, order, tracked, known, answers>>
    BY DEF PinReleased, procVars
  <1>2. run \in [Gen -> RunType] /\ pin'.at = "idle"
    BY <1>1 DEF MatInv, ControlTypes
  <1>3. pin' \in PinType
    BY <1>1, GenAssumption DEF PinType
  <1>4. Begun(req)
    BY <1>1, <1>2, Resuming DEF processVars
  <1>5. ControlTypes'
    BY <1>1, <1>3, <1>4 DEF MatInv, ControlTypes, Begun
  <1>6. DemandTypes' /\ Answering'
    BY <1>1, <1>4, AnsweringKept DEF Begun
  <1> QED
    BY <1>4, <1>5, <1>6 DEF MatInv, Begun, Control

\* StartInitialMaterialization and SpawnUpstreamBackground.
LEMMA Spawning ==
  ASSUME MatInv, NEW t \in {"eager", "background"}, SpawnUpstream(t)
  PROVE  MatInv'
  <1> DEFINE u == IF t = "eager" /\ persistent THEN "persistent" ELSE t
  <1>1. /\ StartMaterialization(u, run, req)
        /\ UNCHANGED <<persistent, stopped, mon, fin, sess, pin, notified, upstream, dead, retiring,
                       stage, cache, life, order, tracked, known, answers>>
    BY DEF SpawnUpstream, procVars
  <1>2. u \in Trigger
    BY DEF Trigger
  <1>3. run \in [Gen -> RunType] /\ req \in [Request -> ReqType]
    BY DEF MatInv, ControlTypes, DemandTypes
  <1> HIDE DEF u
  <1>4. Begun(req)
    BY <1>1, <1>2, <1>3, Starting DEF processVars
  <1>5. ControlTypes'
    BY <1>1, <1>4 DEF MatInv, ControlTypes, Begun
  <1>6. DemandTypes' /\ Answering'
    BY <1>1, <1>4, AnsweringKept DEF Begun
  <1> QED
    BY <1>4, <1>5, <1>6 DEF MatInv, Begun, Control

-----------------------------------------------------------------------------
(* The invariant, and what follows from it.                                *)

\* An owner without a process, with or without a cache.
LEMMA InitMat == Init => MatInv
  <1> SUFFICES ASSUME Init PROVE MatInv
    OBVIOUS
  <1>1. RunAt("none", "") \in RunType /\ RunAt("none", "").at = "none"
    BY RunsBegin
  <1>2. run \in [Gen -> RunType] /\ \A n \in Gen : run[n].at = "none"
    BY <1>1 DEF Init
  <1>3. NoFinalizer \in FinType /\ pin \in PinType
    <2>1. NoFinalizer \in FinType
      BY DEF NoFinalizer, FinType, Trigger
    <2>2. 0 \in 0 .. MaxGen
      BY GenAssumption
    <2>3. pin = [at |-> "idle", gen |-> 0]
      BY DEF Init
    <2> QED
      BY <2>1, <2>2, <2>3 DEF PinType
  <1>4. attempt \in 0 .. generation /\ generation \in 0 .. MaxGen
    <2>1. attempt = 0 /\ generation = 0
      BY DEF Init
    <2> QED
      BY <2>1, GenAssumption
  <1>5. ControlTypes
    BY <1>2, <1>3, <1>4 DEF Init, ControlTypes, State
  <1>6. req \in [Request -> ReqType]
    BY Readers DEF Init
  <1>7. DemandTypes
    <2>1. /\ order = <<>> /\ known = {} /\ tracked = [d \in Request |-> NoProc]
          /\ answers = [d \in Request |-> 0]
      BY DEF Init
    <2> QED
      BY <1>6, <2>1 DEF DemandTypes
  <1>8. OneRun
    <2>1. \A n \in Gen : n # 0
      BY GenAssumption DEF Gen
    <2> QED
      BY <1>2, <2>1 DEF Init, OneRun, Equipped, Active, Without, Owning, Giving
  <1>9. Placed /\ Resting /\ AuthorityKept /\ Barrier
    BY DEF Init, Placed, Resting, AuthorityKept, Barrier
  <1>10. Answering
    BY DEF Init, Answering
  <1> QED
    BY <1>5, <1>7, <1>8, <1>9, <1>10 DEF MatInv

\* Every step of every goroutine keeps the invariant.
LEMMA NextMat == MatInv /\ [Next]_vars => MatInv'
  <1> SUFFICES ASSUME MatInv, [Next]_vars PROVE MatInv'
    OBVIOUS
  <1>1. ASSUME NEW t \in {"eager", "background"}, SpawnUpstream(t) PROVE MatInv'
    BY <1>1, Spawning
  <1>2. ASSUME NEW n \in Gen, RunStep(n) PROVE MatInv'
    BY <1>2, Looping, Launching, Launched, Retiring, Retired, Blocking, Waits, RunFails, RunResumes,
       Taking, Publishing, LostRetires, RunRestarts, Forwarding DEF RunStep
  <1>3. ASSUME NEW p \in Proc, FinalizerStep(p) PROVE MatInv'
    BY <1>3, Unproven, Proven, Replacing, WatchersStop, WatcherRetires, ExitSeen DEF FinalizerStep
  <1>4. ASSUME NEW p \in Proc, DiscoveryStep(p) PROVE MatInv'
    BY <1>4, Staging, Committing DEF DiscoveryStep
  <1>5. ASSUME NEW p \in Proc, ProcessStep(p) \/ MarkUpstreamDead(p) PROVE MatInv'
    BY <1>5, Processes, Marked
  <1>6. ASSUME NEW d \in Request, RequestStep(d) PROVE MatInv'
    BY <1>6, Handling, Queueing, Carrying, Publication, Writing, WriteRetires, Responding
       DEF RequestStep, ReaderStep
  <1>7. ASSUME NEW s \in Session, SessionStep(s) \/ RemoveSession(s) PROVE MatInv'
    BY <1>7, Sessions, Removing
  <1>8. CASE StopMaterialization
    BY <1>8, Stopping
  <1>9. CASE PinStep
    BY <1>9, PinTaken, PinMoves, PinReleases DEF PinStep
  <1>10. CASE UNCHANGED vars
    <2>1. UNCHANGED controlVars /\ UNCHANGED <<order, req, tracked, known, answers>>
      BY <1>10 DEF vars, controlVars, demandVars
    <2> QED
      BY <2>1, DemandsKept, OnlyDemands
  <1> QED
    BY <1>1, <1>2, <1>3, <1>4, <1>5, <1>6, <1>7, <1>8, <1>9, <1>10 DEF Next

\* The inductive invariant: the attempt is the one run that is at work, and where it
\* stands tells which process is installed and which is being retired.
THEOREM MatInvariant == Spec => []MatInv
  BY InitMat, NextMat, PTL DEF Spec

\* startMaterializationLocked, retireMaterializationProcess and completeRetiringProcess:
\* a process tree that is not proven gone is the installed one.
THEOREM AuthorityIsKept == Spec => []AuthorityKept
  <1>1. MatInv => AuthorityKept
    BY DEF MatInv
  <1> QED
    BY <1>1, MatInvariant, PTL

-----------------------------------------------------------------------------
(* The exit monitor.                                                       *)

\* A process in service, or one whose attempt may still publish READY, has its exit
\* monitor, until the owner stops.
Serving == {"discover", "finish", "forward", "forwarding", "lost"}
Exposed ==
  /\ upstream # NoProc /\ retiring = NoProc
  /\ state = "READY" \/ (attempt # 0 /\ run[attempt].at \in Serving /\ ~dead)
Watched == Exposed => mon[upstream] # "none" \/ stopped

\* A step that leaves the monitors alone.
LEMMA StillWatched ==
  ASSUME Watched, UNCHANGED <<mon, upstream>>, stopped => stopped', Exposed' => Exposed
  PROVE  Watched'
  BY DEF Watched

\* A step that leaves the processes alone, and moves no run to where it may publish.
LEMMA NotExposing ==
  ASSUME MatInv, Watched, UNCHANGED <<upstream, dead, retiring, attempt, mon>>, stopped => stopped',
         state' = state \/ state' # "READY",
         \A n \in Gen : run'[n].at \in Serving => run[n].at \in Serving
  PROVE  Watched'
  <1>1. attempt # 0 => attempt \in Gen
    BY Generations DEF MatInv
  <1>2. Exposed' => Exposed
    BY <1>1 DEF Exposed
  <1> QED
    BY <1>2, StillWatched

\* A new generation has no process yet.
LEMMA Unexposed ==
  ASSUME MatInv, NEW t, NEW r \in [Gen -> RunType], NEW q, NewGeneration(t, r, q)
  PROVE  ~Exposed'
  <1>1. generation + 1 \in Gen
    BY Generations DEF MatInv, NewGeneration
  <1>2. run'[attempt'].at = "check" /\ state' = "MATERIALIZING"
    BY <1>1 DEF NewGeneration, NewRun
  <1> QED
    BY <1>2 DEF Exposed, Serving

\* A run is replaced by one that is not nearer to publishing.
LEMMA Standing ==
  ASSUME ControlTypes, NEW n \in Gen, NEW r, run' = [run EXCEPT ![n] = r],
         r.at \in Serving => run[n].at \in Serving
  PROVE  \A m \in Gen : run'[m].at \in Serving => run[m].at \in Serving
  <1>1. run \in [Gen -> RunType]
    BY DEF ControlTypes
  <1> QED
    BY <1>1

\* The same for a run that only moves, is cancelled, or found its cache complete.
LEMMA Stepping ==
  ASSUME ControlTypes, NEW n \in Gen,
         \/ \E pc \in Places : run' = Goto(n, pc) /\ (pc \in Serving => run[n].at \in Serving)
         \/ run' = [run EXCEPT ![n].cancel = TRUE]
         \/ run' = [run EXCEPT ![n].ready = TRUE]
         \/ \E why \in {"gone", "other"} : run' = [run EXCEPT ![n] = Fails(@, why)]
  PROVE  \A m \in Gen : run'[m].at \in Serving => run[m].at \in Serving
  <1>1. run[n] \in RunType
    BY DEF ControlTypes
  <1>2. ASSUME NEW pc \in Places, run' = Goto(n, pc), pc \in Serving => run[n].at \in Serving
        PROVE  \A m \in Gen : run'[m].at \in Serving => run[m].at \in Serving
    BY <1>2, Going DEF Turned
  <1>3. CASE run' = [run EXCEPT ![n].cancel = TRUE]
    <2> DEFINE r == [run[n] EXCEPT !.cancel = TRUE]
    <2>1. r.at = run[n].at /\ run' = [run EXCEPT ![n] = r]
      BY <1>1, <1>3 DEF RunType
    <2> HIDE DEF r
    <2> QED
      BY <2>1, Standing
  <1>4. CASE run' = [run EXCEPT ![n].ready = TRUE]
    <2> DEFINE r == [run[n] EXCEPT !.ready = TRUE]
    <2>1. r.at = run[n].at /\ run' = [run EXCEPT ![n] = r]
      BY <1>1, <1>4 DEF RunType
    <2> HIDE DEF r
    <2> QED
      BY <2>1, Standing
  <1>5. ASSUME NEW why \in {"gone", "other"}, run' = [run EXCEPT ![n] = Fails(@, why)]
        PROVE  \A m \in Gen : run'[m].at \in Serving => run[m].at \in Serving
    <2> DEFINE r == Fails(run[n], why)
    <2>1. r.at = run[n].at /\ run' = [run EXCEPT ![n] = r]
      BY <1>1, <1>5 DEF RunType, Fails
    <2> HIDE DEF r
    <2> QED
      BY <2>1, Standing
  <1> QED
    BY <1>2, <1>3, <1>4, <1>5

\* Where the steps of a run lead.
LEMMA RunWatched == ASSUME MatInv, Watched, NEW n \in Gen, RunStep(n) PROVE Watched'
  <1>0. n # 0 /\ ControlTypes
    BY GenAssumption DEF MatInv, Gen
  <1>1. run \in [Gen -> RunType] /\ (run[n].at \in Active => attempt = n) /\ n # 0
    BY <1>0 DEF MatInv, ControlTypes, OneRun
  <1>2. run[n].at \in Active => state # "READY"
    BY <1>1 DEF MatInv, Placed
  <1>3. CASE \/ RunCheck(n) \/ RunStartFails(n) \/ RunDiscovered(n) \/ RunDiscoveryFails(n)
             \/ RunBlocked(n) \/ RunDecide(n) \/ RunBackoff(n) \/ RunTakeDemands(n) \/ RunLost(n)
             \/ RunSettled(n) \/ RunForward(n) \/ RunForwarded(n)
    <2>1. \A m \in Gen : run'[m].at \in Serving => run[m].at \in Serving
      <3>1. CASE \E pc \in Places : run' = Goto(n, pc) /\ (pc \in Serving => run[n].at \in Serving)
        BY <1>0, <3>1, Stepping
      <3>2. CASE RunStartFails(n)
        <4> DEFINE r == [run[n] EXCEPT !.at = "retired", !.early = TRUE]
        <4>1. r.at = "retired" /\ run' = [run EXCEPT ![n] = r]
          BY <1>1, <3>2 DEF RunStartFails, Goto, RunType
        <4> HIDE DEF r
        <4> QED
          BY <1>0, <4>1, Standing DEF Serving
      <3>3. CASE RunTakeDemands(n)
        <4> DEFINE r == [run[n] EXCEPT !.at = "forward", !.order = order]
        <4>1. run[n].at = "finish" /\ run' = [run EXCEPT ![n] = r]
          BY <1>1, <3>3 DEF RunTakeDemands, Goto, At
        <4> HIDE DEF r
        <4> QED
          BY <1>0, <4>1, Standing DEF Serving
      <3>4. CASE RunLost(n)
        <4> DEFINE r == [run[n] EXCEPT !.at = "lost", !.retry = IF trigger = "" THEN "recover" ELSE trigger]
        <4>1. run[n].at = "finish" /\ run' = [run EXCEPT ![n] = r]
          BY <1>1, <3>4 DEF RunLost, Goto, At
        <4> HIDE DEF r
        <4> QED
          BY <1>0, <4>1, Standing DEF Serving
      <3>5. CASE RunForward(n) \/ RunForwarded(n)
        <4>1. run[n].at \in {"forward", "forwarding"}
          BY <3>5 DEF RunForward, RunForwarded, At
        <4>2. \E r : run' = [run EXCEPT ![n] = r]
          <5>1. CASE RunForward(n)
            <6>1. \/ run' = [run EXCEPT ![n].order = Tail(@)]
                  \/ run' = [run EXCEPT ![n].at = "forwarding"]
              BY <5>1 DEF RunForward
            <6>2. \/ run' = [run EXCEPT ![n] = [run[n] EXCEPT !.order = Tail(run[n].order)]]
                  \/ run' = [run EXCEPT ![n] = [run[n] EXCEPT !.at = "forwarding"]]
              BY <6>1
            <6> QED
              BY <6>2
          <5>2. CASE RunForwarded(n)
            <6>1. \/ run' = [Goto(n, "forward") EXCEPT ![n].order = Tail(@)]
                  \/ run' = Goto(n, "finish")
              BY <5>2 DEF RunForwarded
            <6>2. run' = Goto(n, "finish") => run' = [run EXCEPT ![n] = [run[n] EXCEPT !.at = "finish"]]
              BY DEF Goto
            <6>3. run' = [Goto(n, "forward") EXCEPT ![n].order = Tail(@)] =>
                    run' = [run EXCEPT ![n] = [Goto(n, "forward")[n] EXCEPT !.order = Tail(@)]]
              BY <1>1 DEF Goto
            <6> QED
              BY <6>1, <6>2, <6>3
          <5> QED
            BY <3>5, <5>1, <5>2
        <4> QED
          BY <1>0, <4>1, <4>2, Standing DEF Serving
      <3>6. CASE RunCheck(n) \/ RunDiscovered(n) \/ RunDiscoveryFails(n) \/ RunBlocked(n) \/ RunDecide(n)
        BY <3>1, <3>6 DEF RunCheck, RunDiscovered, RunDiscoveryFails, RunBlocked, RunDecide, At, Serving,
           Places, Active, Without, Owning, Giving
      <3>7. CASE RunBackoff(n) \/ RunSettled(n)
        BY <3>1, <3>7 DEF RunBackoff, RunSettled, Serving, Places, Active, Without, Owning, Giving
      <3> QED
        BY <1>3, <3>2, <3>3, <3>4, <3>5, <3>6, <3>7
    <2>2. /\ UNCHANGED <<upstream, dead, retiring, attempt, mon, stopped>>
          /\ state' = state \/ state' # "READY"
      BY <1>3 DEF RunCheck, RunStartFails, RunDiscovered, RunDiscoveryFails, RunBlocked,
         RunDecide, RunBackoff, RunTakeDemands, RunLost, RunSettled, RunForward, RunForwarded,
         runOnly, procVars
    <2> QED
      BY <2>1, <2>2, NotExposing
  <1>4. CASE RunRetire(n) \/ RunRetired(n) \/ RunFail(n)
    <2>1. run[n].at \in Active /\ (RunRetire(n) => run[n].proc \in Proc)
      BY <1>1, <1>4 DEF RunRetire, RunRetired, RunFail, At, Active, Owning, Giving, MatInv, Placed
    <2>2. ~Exposed'
      BY <1>1, <1>2, <1>4, <2>1, ProcAssumption DEF RunRetire, RunRetired, RunFail, Exposed
    <2> QED
      BY <2>2 DEF Watched
  <1>5. CASE RunResume(n) \/ RunRestart(n)
    <2> DEFINE r == IF RunResume(n) THEN Goto(n, IF run[n].retry = "" THEN "ended" ELSE "restart")
                    ELSE Ended(n)
    <2>1. r \in [Gen -> RunType] /\ \A m \in Gen : r[m].at \in Serving => run[m].at \in Serving
      <3>1. CASE r = Ended(n)
        <4> DEFINE e == RunAt("ended", "")
        <4>1. e \in RunType /\ e.at = "ended"
          BY RunsBegin
        <4>2. r = [run EXCEPT ![n] = e]
          BY <3>1 DEF Ended
        <4> HIDE DEF e, r
        <4> QED
          BY <1>1, <4>1, <4>2 DEF Serving
      <3>2. ASSUME NEW pc \in {"ended", "restart"}, r = Goto(n, pc)
            PROVE  r \in [Gen -> RunType] /\ \A m \in Gen : r[m].at \in Serving => run[m].at \in Serving
        <4> DEFINE e == [run[n] EXCEPT !.at = pc]
        <4>0. run[n] \in RunType
          BY <1>1
        <4>1. e \in RunType /\ e.at = pc
          BY <4>0, RunRecord
        <4>2. r = [run EXCEPT ![n] = e]
          BY <3>2 DEF Goto
        <4> HIDE DEF e, r
        <4> QED
          BY <1>1, <4>1, <4>2 DEF Serving
      <3> QED
        BY <3>1, <3>2
    <2>2. \/ run' = r /\ UNCHANGED <<attempt, state>>
          \/ \E t, q : NewGeneration(t, r, q)
      BY <1>5 DEF RunResume, RunRestart, ResumeMaterialization, StartMaterialization
    <2>3. UNCHANGED <<upstream, dead, retiring, mon, stopped>>
      BY <1>5 DEF RunResume, RunRestart, procVars
    <2>4. CASE run' = r /\ UNCHANGED <<attempt, state>>
      BY <2>1, <2>3, <2>4, NotExposing
    <2>5. CASE \E t, q : NewGeneration(t, r, q)
      BY <2>1, <2>5, Unexposed DEF Watched
    <2> QED
      BY <2>2, <2>4, <2>5
  <1>6. CASE RunReady(n)
    <2>1. Exposed /\ UNCHANGED <<mon, upstream, stopped>>
      BY <1>1, <1>6, ProcAssumption
         DEF RunReady, At, Live, Exposed, Serving, MatInv, Placed, Active, Owning, procVars
    <2> QED
      BY <2>1, StillWatched
  <1>7. CASE RunRetireLost(n)
    <2>1. CASE MarkRetiring(run[n].proc, run[n].retry)
      BY <2>1 DEF MarkRetiring, MayRetire, Watched, Exposed
    <2>2. CASE run' = Goto(n, "fail") /\ UNCHANGED <<state, dead, retiring>>
      <3>1. \A m \in Gen : run'[m].at \in Serving => run[m].at \in Serving
        BY <1>1, <2>2 DEF Goto, RunType, Serving
      <3> QED
        BY <1>7, <2>2, <3>1, NotExposing DEF RunRetireLost
    <2> QED
      BY <1>7, <2>1, <2>2 DEF RunRetireLost
  <1>8. ASSUME NEW p \in Proc, NEW early \in BOOLEAN, RunStart(n, p, early) PROVE Watched'
    <2>1. run'[n].at \notin Serving
      BY <1>1, <1>8 DEF RunStart, RunType, Serving
    <2>2. attempt' = n /\ state' # "READY"
      BY <1>1, <1>2, <1>8 DEF RunStart, At, Active, Without
    <2> QED
      BY <2>1, <2>2 DEF Watched, Exposed
  <1>9. CASE RunLaunched(n)
    <2>1. /\ attempt = n /\ run[n].proc \in Proc /\ upstream \in {NoProc, run[n].proc}
          /\ state # "READY" /\ UNCHANGED <<state, attempt, upstream>>
      BY <1>1, <1>2, <1>9 DEF RunLaunched, At, Active, Owning, MatInv, Placed, procVars
    <2>2. CASE run[n].cancel
      <3>1. run'[n].at = "retire"
        BY <1>1, <1>9, <2>2 DEF RunLaunched, Goto, RunType
      <3> QED
        BY <2>1, <3>1 DEF Watched, Exposed, Serving
    <2>3. CASE ~run[n].cancel
      <3>1. mon'[run[n].proc] = "watch"
        BY <1>9, <2>1, <2>3 DEF RunLaunched, MatInv, ControlTypes
      <3> QED
        BY <2>1, <3>1 DEF Watched, Exposed
    <2> QED
      BY <2>2, <2>3
  <1> QED
    BY <1>3, <1>4, <1>5, <1>6, <1>7, <1>8, <1>9 DEF RunStep

\* Every step keeps the monitor of a process in service.
LEMMA NextWatched == MatInv /\ Watched /\ [Next]_vars => Watched'
  <1> SUFFICES ASSUME MatInv, Watched, [Next]_vars PROVE Watched'
    OBVIOUS
  <1>0. ControlTypes
    BY DEF MatInv
  <1>1. run \in [Gen -> RunType] /\ (attempt # 0 => attempt \in Gen /\ state # "READY")
    BY Generations DEF MatInv, ControlTypes, Placed
  <1>2. ASSUME NEW t, NEW q, StartMaterialization(t, run, q),
               UNCHANGED <<upstream, dead, retiring, mon, stopped>>
        PROVE  Watched'
    BY <1>1, <1>2, Unexposed, NotExposing DEF StartMaterialization, Watched
  <1>3. ASSUME NEW p \in Proc, NEW t, MarkRetiring(p, t) PROVE Watched'
    BY <1>3 DEF MarkRetiring, MayRetire, Watched, Exposed
  <1>4. ASSUME NEW t \in {"eager", "background"}, SpawnUpstream(t) PROVE Watched'
    BY <1>2, <1>4 DEF SpawnUpstream, procVars
  <1>5. ASSUME NEW n \in Gen, RunStep(n) PROVE Watched'
    BY <1>5, RunWatched
  <1>6. ASSUME NEW p \in Proc, FinalizerStep(p) PROVE Watched'
    <2>1. CASE CompleteUnproven(p) \/ RetryStops(p)
      BY <2>1, NotExposing DEF CompleteUnproven, RetryStops, procVars
    <2>2. CASE CompleteProven(p)
      <3>1. CASE retiring # p
        BY <2>2, <3>1, NotExposing DEF CompleteProven
      <3>2. CASE retiring = p
        BY <2>2, <3>2 DEF CompleteProven, Watched, Exposed
      <3> QED
        BY <3>1, <3>2
    <2>3. CASE StartAfterRetirement(p)
      BY <1>2, <2>3 DEF StartAfterRetirement, procVars
    <2>4. CASE MonitorStops(p)
      BY <2>4 DEF MonitorStops, Watched
    <2>5. CASE MonitorRetires(p)
      <3>1. CASE ~MayRetire(p) /\ UNCHANGED <<state, dead, retiring>>
        <4>1. Exposed' => Exposed /\ upstream # p /\ upstream' = upstream /\ upstream \in Proc
          BY <2>5, <3>1 DEF MonitorRetires, MayRetire, Exposed, MatInv, ControlTypes
        <4>2. upstream # p /\ upstream \in Proc => mon'[upstream] = mon[upstream]
          BY <2>5 DEF MonitorRetires, MatInv, ControlTypes
        <4> QED
          BY <2>5, <4>1, <4>2 DEF Watched, MonitorRetires
      <3> QED
        BY <1>3, <2>5, <3>1 DEF MonitorRetires
    <2>6. CASE MonitorExit(p)
      <3>1. /\ UNCHANGED <<state, attempt, upstream, retiring, stopped>>
            /\ \A m \in Proc \ {p} : mon'[m] = mon[m]
        BY <2>6 DEF MonitorExit, MatInv, ControlTypes
      <3>2. CASE upstream # p \/ retiring = p
        <4>1. UNCHANGED <<run, dead>>
          BY <2>6, <3>2 DEF MonitorExit
        <4> QED
          BY <3>1, <3>2, <4>1 DEF Watched, Exposed, MatInv, ControlTypes
      <3>3. CASE upstream = p /\ retiring # p
        <4>1. CASE AttemptProc = p
          BY <1>1, <2>6, <3>1, <3>3, <4>1, ProcAssumption DEF MonitorExit, Watched, Exposed, AttemptProc
        <4>2. CASE AttemptProc # p
          BY <2>6, <3>1, <3>3, <4>2 DEF MonitorExit, Watched, Exposed, MatInv, ControlTypes
        <4> QED
          BY <4>1, <4>2
      <3> QED
        BY <3>2, <3>3
    <2> QED
      BY <1>6, <2>1, <2>2, <2>3, <2>4, <2>5, <2>6 DEF FinalizerStep
  <1>7. ASSUME NEW p \in Proc, DiscoveryStep(p) PROVE Watched'
    <2>1. \A n \in Gen : run'[n].at \in Serving => run[n].at \in Serving
      <3>1. attempt \in Gen
        BY <1>1, <1>7, ProcAssumption
           DEF DiscoveryStep, StageResponse, CommitMaterializationCache, Discovering, AttemptProc
      <3> QED
        BY <1>0, <1>7, <3>1, Stepping DEF DiscoveryStep, StageResponse, CommitMaterializationCache
    <2>2. UNCHANGED <<upstream, dead, retiring, attempt, mon, stopped, state>>
      BY <1>7 DEF DiscoveryStep, StageResponse, CommitMaterializationCache, procVars
    <2> QED
      BY <2>1, <2>2, NotExposing
  <1>8. ASSUME NEW p \in Proc, ProcessStep(p) \/ MarkUpstreamDead(p) PROVE Watched'
    <2>1. CASE ProcessStep(p)
      BY <2>1, NotExposing DEF ProcessStep
    <2>2. CASE MarkUpstreamDead(p)
      BY <2>2 DEF MarkUpstreamDead, Watched, Exposed
    <2> QED
      BY <1>8, <2>1, <2>2
  <1>9. ASSUME NEW d \in Request, RequestStep(d) PROVE Watched'
    <2>1. CASE WriteFailed(d)
      <3>1. CASE req[d].up = NoProc
        BY <1>2, <2>1, <3>1 DEF WriteFailed, MarkRetiring, MayRetire
      <3>2. CASE req[d].up # NoProc
        <4>1. req[d].up \in Proc
          BY <3>2 DEF MatInv, DemandTypes, ReqType
        <4> QED
          BY <1>3, <2>1, <3>2, <4>1, NotExposing DEF WriteFailed
      <3> QED
        BY <3>1, <3>2
    <2>2. CASE RequestQueued(d)
      BY <1>1, <2>2, Unexposed, NotExposing DEF RequestQueued, Watched, procVars
    <2>3. CASE UNCHANGED <<upstream, dead, retiring, attempt, mon, stopped, state, run>>
      BY <2>3, NotExposing
    <2> QED
      BY <1>9, <2>1, <2>2, <2>3 DEF RequestStep, ReaderStep, RequestDirect, RequestRefused, DemandEnds,
         Capture, Publish, WriteLine, WriteSettled, Respond, procVars
  <1>10. ASSUME NEW s \in Session, SessionStep(s) \/ RemoveSession(s) PROVE Watched'
    <2>1. \A n \in Gen : run'[n].at \in Serving => run[n].at \in Serving
      BY <1>0, <1>1, <1>10, Stepping DEF SessionStep, RemoveSession
    <2> QED
      BY <1>10, <2>1, NotExposing DEF SessionStep, RemoveSession, procVars
  <1>11. CASE StopMaterialization
    <2>1. \A n \in Gen : run'[n].at \in Serving => run[n].at \in Serving
      BY <1>0, <1>1, <1>11, Stepping DEF StopMaterialization
    <2> QED
      BY <1>11, <2>1, NotExposing DEF StopMaterialization, procVars
  <1>12. CASE PinStep
    <2>1. CASE PinReleased
      <3>1. \/ UNCHANGED <<run, attempt, state>>
            \/ \E t, q : NewGeneration(t, run, q)
        BY <2>1 DEF PinReleased, ResumeMaterialization
      <3> QED
        BY <1>1, <2>1, <3>1, Unexposed, NotExposing DEF PinReleased, Watched, procVars
    <2>2. CASE PinAcquire \/ PinSettled \/ PinCancels \/ PinGivesUp \/ PinHolds
      <3>1. \A n \in Gen : run'[n].at \in Serving => run[n].at \in Serving
        BY <1>0, <2>2, Stepping
           DEF PinAcquire, PinSettled, PinCancels, PinGivesUp, PinHolds, MatInv, Barrier
      <3>2. UNCHANGED <<state, upstream, dead, retiring, attempt, mon, stopped>>
        BY <2>2 DEF PinAcquire, PinSettled, PinCancels, PinGivesUp, PinHolds, procVars
      <3> QED
        BY <3>1, <3>2, NotExposing
    <2> QED
      BY <1>12, <2>1, <2>2 DEF PinStep
  <1>13. CASE UNCHANGED vars
    BY <1>13, NotExposing DEF vars, procVars
  <1> QED
    BY <1>4, <1>5, <1>6, <1>7, <1>8, <1>9, <1>10, <1>11, <1>12, <1>13 DEF Next

\* finishMaterializationSuccess and monitorUpstreamExit: READY has an installed process
\* that nobody retires, no attempt, and a monitor that will retire the process.
THEOREM ReadyHasProcess == Spec => []ReadyIsWatched
  <1>1. MatInv /\ Watched => ReadyIsWatched
    <2> SUFFICES ASSUME MatInv, Watched PROVE ReadyIsWatched
      OBVIOUS
    <2>1. ControlTypes /\ DemandTypes
      BY DEF MatInv
    <2>2. {dead, persistent, stopped, notified} \subseteq BOOLEAN
      BY <2>1 DEF ControlTypes
    <2>3. ASSUME NEW n \in Gen
          PROVE  /\ run[n].at \in {"none", "check", "start", "launched", "discover", "retire",
                                   "closing", "retired", "backoff", "finish", "forward",
                                   "forwarding", "lost", "settling", "fail", "resume", "restart",
                                   "ended"}
                 /\ run[n].trigger \in Trigger /\ run[n].proc \in Proc \cup {NoProc}
                 /\ {run[n].ready, run[n].cancel, run[n].early} \subseteq BOOLEAN
                 /\ run[n].failed \in {"no", "gone", "other"}
                 /\ run[n].retry \in Trigger \cup {""}
                 /\ run[n].order \in Seq(Request)
      <3>1. run[n] \in RunType
        BY <2>1 DEF ControlTypes
      <3> QED
        BY <3>1 DEF RunType, Active, Without, Owning, Giving
    <2>4. MatTypeOK
      BY <2>1, <2>2, <2>3 DEF MatTypeOK, ControlTypes, DemandTypes, ReqType, FinType, PinType
    <2>5. state = "READY" => /\ upstream # NoProc /\ retiring = NoProc /\ attempt = 0
                             /\ mon[upstream] # "none" \/ stopped
      BY DEF MatInv, Placed, Resting, Watched, Exposed
    <2> QED
      BY <2>4, <2>5 DEF ReadyIsWatched
  <1>2. Init => Watched
    BY DEF Init, Watched, Exposed
  <1> QED
    BY <1>1, <1>2, InitMat, NextMat, NextWatched, PTL DEF Spec

\* inflightTracker and localDemand: whoever takes the request answers it, and nobody
\* else does.
THEOREM AnsweredAtMostOnce == Spec => []AnsweredOnce
  <1>1. MatInv => AnsweredOnce
    BY DEF MatInv, Answering, AnsweredOnce
  <1> QED
    BY <1>1, MatInvariant, PTL

\* AcquireRestartPin: while the state is serialized nothing materializes.
THEOREM NothingBehindThePin == Spec => [](pin.at = "held" => attempt = 0)
  <1>1. MatInv => (pin.at = "held" => attempt = 0)
    BY DEF MatInv, Barrier
  <1> QED
    BY <1>1, MatInvariant, PTL
=============================================================================
